---- MODULE Spec2Model ----
(***************************************************************************)
(* State-machine model of the AI move-orchestration core of ai-chess:      *)
(*   - ChessService (src/src/services/chessService.ts), a wrapper around   *)
(*     the chess.js rules engine;                                          *)
(*   - the Memory Store (src/src/services/memoryService.ts);               *)
(*   - the advanced move pipeline (src/src/services/aiService.ts) and the  *)
(*     basic PGN-continuation pipeline (fetchNextMoveSimple, in            *)
(*     src/src/services/strategyService.ts);                               *)
(*   - the AI game loop of App (src/src/App.tsx).                          *)
(*                                                                         *)
(* chess.js is an external library.  It is represented by a finite game:   *)
(* a table of positions, each with its ordered legal-move list, taken from *)
(* the first plies of real chess: 1. f3 e5, then 2. g4 answered by Qh4#    *)
(* (Fool's Mate) or Nc6, or 2. Kf2 answered by Qh4+.  Every listed move is *)
(* legal in real chess in that position; the lists are sub-lists of the    *)
(* real ones, and the two non-mate positions that end the table stand for  *)
(* positions chess.js reports as drawn (isDraw).                           *)
(***************************************************************************)
EXTENDS Naturals, Integers, Sequences, FiniteSets, TLC

----------------------------------------------------------------------------
(* JavaScript values *)

\* the value `undefined` (an absent property)
Undefined == "undefined"

\* the value `null`
Null == "null"

\* the empty string
EmptyString == ""

\* JS truthiness of a string | null | undefined value, as used by `!x`, `x ? a : b`
Truthy(v) == v \notin {Undefined, Null, EmptyString}

\* the two players
Colors == {"white", "black"}

OtherColor(c) == IF c = "white" THEN "black" ELSE "white"

\* Math.ceil(n / 2)
CeilHalf(n) == (n + 1) \div 2

Min(a, b) == IF a < b THEN a ELSE b

\* Array.prototype.slice(0, n)
Slice0(s, n) == SubSeq(s, 1, Min(n, Len(s)))

\* the elements of a sequence
Range(s) == {s[i] : i \in DOMAIN s}

----------------------------------------------------------------------------
(* RulesAuthority: chess.js behind ChessService *)

\* a SAN string, kept as its body and its check suffix ("", "+" or "#"): the
\* string is their concatenation, and the body never ends in "+" or "#"
San(body, suffix) == <<body, suffix>>

\* a verbose chess.js move, as mapped by getAllLegalMoves (timestamp omitted)
Mv(f, t, p, pc, col, s) ==
  [from |-> f, to |-> t, promotion |-> p, piece |-> pc, color |-> col, san |-> s]

\* position identifiers of the finite game
StartPos == "start"

Positions ==
  {"start", "f3", "f3e5", "X", "Y", "mate", "Xc6", "Ycheck"}

\* chess.turn()
Turn(pos) ==
  IF pos \in {"start", "f3e5", "mate", "Xc6", "Ycheck"} THEN "w" ELSE "b"

\* chess.moves({verbose: true}) with the successor position of every move
MoveTable(pos) ==
  CASE pos = "start" ->
         << [m |-> Mv("f2", "f3", Undefined, "p", "w", San("f3", "")), next |-> "f3"] >>
    [] pos = "f3" ->
         << [m |-> Mv("e7", "e5", Undefined, "p", "b", San("e5", "")), next |-> "f3e5"] >>
    [] pos = "f3e5" ->
         << [m |-> Mv("g2", "g4", Undefined, "p", "w", San("g4", "")), next |-> "X"],
            [m |-> Mv("e1", "f2", Undefined, "k", "w", San("Kf2", "")), next |-> "Y"] >>
    [] pos = "X" ->
         << [m |-> Mv("d8", "h4", Undefined, "q", "b", San("Qh4", "#")), next |-> "mate"],
            [m |-> Mv("b8", "c6", Undefined, "n", "b", San("Nc6", "")), next |-> "Xc6"] >>
    [] pos = "Y" ->
         << [m |-> Mv("d8", "h4", Undefined, "q", "b", San("Qh4", "+")), next |-> "Ycheck"] >>
    [] OTHER -> << >>

\* the legal-move list of a position
LegalMovesOf(pos) == [i \in DOMAIN MoveTable(pos) |-> MoveTable(pos)[i].m]

\* chess.isCheckmate()
IsCheckmate(pos) == pos = "mate"

\* chess.isDraw()
IsDraw(pos) == pos \in {"Xc6", "Ycheck"}

\* chess.inCheck()
InCheck(pos) == pos \in {"mate", "Ycheck"}

\* chess.isGameOver()
IsGameOver(pos) == IsCheckmate(pos) \/ IsDraw(pos)

\* every move of the game, as a set
AllMoves == UNION {Range(LegalMovesOf(p)) : p \in Positions}

----------------------------------------------------------------------------
(* Text values.  A string is the sequence of its characters; null and      *)
(* undefined are one-element sequences holding a token that is no          *)
(* character, so that they compare with strings.                           *)

NullText == <<"null">>

UndefinedText == <<"undefined">>

\* JS truthiness of a string | null | undefined text
TruthyText(t) == t \notin {NullText, UndefinedText, << >>}

\* the characters opening descriptions are made of: a letter, a delimiter, a blank
OpeningChars == {"S", ".", " "}

\* the delimiters of /[.,:]/
Delimiters == {".", ",", ":"}

\* longest opening description drawn as an input
MaxTextLen == 2

\* opening descriptions handed to setOpening
Texts == UNION {[1..n -> OpeningChars] : n \in 1..MaxTextLen}

\* String.prototype.trim
RECURSIVE TrimLeft(_)
TrimLeft(t) == IF t # << >> /\ Head(t) = " " THEN TrimLeft(Tail(t)) ELSE t

RECURSIVE TrimRight(_)
TrimRight(t) ==
  IF t # << >> /\ t[Len(t)] = " " THEN TrimRight(SubSeq(t, 1, Len(t) - 1)) ELSE t

Trim(t) == TrimRight(TrimLeft(t))

\* opening.split(/[.,:]/)[0]
RECURSIVE SplitFirst(_)
SplitFirst(t) ==
  IF t = << >> \/ Head(t) \in Delimiters THEN << >>
  ELSE <<Head(t)>> \o SplitFirst(Tail(t))

----------------------------------------------------------------------------
(* Memory Store (memoryService.ts) *)

\* goals.slice(0, 3): the cap on stored goals
MaxGoals == 3

\* reflection.length > 5: the cap on stored reflections
MaxReflections == 5

VARIABLES
  chess,                \* ChessService.chess: [pos, history]
  initialMemory,        \* the array/object values initialMemory's fields refer to
  memoryStore,          \* memoryStore[color]: the fields that are assigned per colour
  gameState,            \* App state gameState: the last getGameState() snapshot
  gameMode,             \* App state gameMode
  whitePlayer,          \* App state whitePlayer: [color, type]
  blackPlayer,          \* App state blackPlayer: [color, type]
  modelsLoaded,         \* both players' model is set (Start is enabled)
  isGameRunning,        \* App state isGameRunning
  isThinking,           \* App state isThinking
  currentMoveAnalysis,  \* App state currentMoveAnalysis
  timer,                \* the AI loop effect's setTimeout is pending
  calls,                \* the makeAIMove invocations suspended at an await
  resets,               \* number of Reset clicks so far (bounded)
  turns,                \* number of makeAIMove invocations so far
  lastCommit,           \* history: the last move makeAIMove committed
  resetRun,             \* history: consecutive resetMemory() calls of the memory harness
  lastStrategy,         \* history: the last updatePlayerStrategy call
  validation,           \* the validator harness: inputs and both validators' verdicts
  extraction,           \* the extraction harness: a model output and both paths' results
  service,              \* the move-service harness: one getNextMove / fetchNextMove call
  probe,                \* the single-call harnesses: the inputs and results of the last call
  stockfish,            \* StockfishService: the fields of the singleton
  timers,               \* the armed timeouts of StockfishService
  posted,               \* the commands posted to the Stockfish worker, in order
  engine,               \* the Stockfish worker: its search and the messages it has sent
  evals,                \* the evaluatePosition requests and what their callbacks received
  bar                   \* EvaluationBar: whether its effect has a cleanup registered

(* initialMemory is one object; `{ ...initialMemory }` copies its fields    *)
(* shallowly, so memoryStore.white, memoryStore.black and initialMemory     *)
(* refer to the same reflection array, the same moveHistory array and the   *)
(* same pieceActivity object.  These three are only ever mutated in place   *)
(* (push, shift, property assignment) and never reassigned, so they live    *)
(* in initialMemory here.  opening, shortTermGoals, longTermGoals, the two  *)
(* stamps and moveEvaluations are assigned through memoryStore[color] and   *)
(* are per colour.                                                          *)

\* the per-colour fields of `{ ...initialMemory }`
InitialOwnFields ==
  [opening |-> NullText, shortTermGoals |-> << >>, longTermGoals |-> << >>,
   lastUpdatedShortTerm |-> 0, lastUpdatedLongTerm |-> 0, moveEvaluations |-> << >>]

\* initialMemory as written in the source: every collection empty
InitialShared == [reflection |-> << >>, moveHistory |-> << >>, pieceActivity |-> << >>]

\* memoryStore as constructed
InitialStore == [c \in Colors |-> InitialOwnFields]

\* the ChessMemory object that store[c] denotes, given the shared arrays
MemoryOf(store, shared, c) ==
  [opening |-> store[c].opening,
   shortTermGoals |-> store[c].shortTermGoals,
   longTermGoals |-> store[c].longTermGoals,
   lastUpdatedShortTerm |-> store[c].lastUpdatedShortTerm,
   lastUpdatedLongTerm |-> store[c].lastUpdatedLongTerm,
   reflection |-> shared.reflection,
   moveHistory |-> shared.moveHistory,
   pieceActivity |-> shared.pieceActivity,
   moveEvaluations |-> store[c].moveEvaluations]

\* getMemory(color)
getMemory(c) == MemoryOf(memoryStore, initialMemory, c)

\* the ChessMemory the source text of initialMemory describes
EmptyMemory ==
  [opening |-> NullText, shortTermGoals |-> << >>, longTermGoals |-> << >>,
   lastUpdatedShortTerm |-> 0, lastUpdatedLongTerm |-> 0,
   reflection |-> << >>, moveHistory |-> << >>, pieceActivity |-> << >>,
   moveEvaluations |-> << >>]

\* `${move.piece}${move.from}`
PieceId(move) == move.piece \o move.from

\* pieceActivity is kept as a sequence of [id, count] entries in insertion order
RECURSIVE BumpActivity(_, _)
BumpActivity(pa, id) ==
  IF pa = << >> THEN << [id |-> id, count |-> 1] >>
  ELSE IF Head(pa).id = id
       THEN << [id |-> id, count |-> Head(pa).count + 1] >> \o Tail(pa)
       ELSE << Head(pa) >> \o BumpActivity(Tail(pa), id)

\* pieceActivity[id] || 0
ActivityOf(pa, id) ==
  IF \E i \in DOMAIN pa : pa[i].id = id
  THEN (CHOOSE e \in Range(pa) : e.id = id).count
  ELSE 0

\* updateMoveHistory(color, move): the shared arrays after the call
MoveHistoryUpdated(shared, color, move) ==
  [shared EXCEPT !.moveHistory = Append(@, move),
                 !.pieceActivity = BumpActivity(@, PieceId(move))]

\* setOpening(color, opening)
OpeningSet(store, color, opening) ==
  [store EXCEPT ![color].opening = Trim(SplitFirst(opening))]

\* updateShortTermGoals(color, goals, moveNumber)
ShortTermGoalsUpdated(store, color, goals, moveNumber) ==
  [store EXCEPT ![color].shortTermGoals = Slice0(goals, MaxGoals),
                ![color].lastUpdatedShortTerm = moveNumber]

\* updateLongTermGoals(color, goals, moveNumber)
LongTermGoalsUpdated(store, color, goals, moveNumber) ==
  [store EXCEPT ![color].longTermGoals = Slice0(goals, MaxGoals),
                ![color].lastUpdatedLongTerm = moveNumber]

\* variant of addReflection that shifts one element too late
ReflectionAddedLate(shared, color, reflection) ==
  LET pushed == Append(shared.reflection, reflection)
  IN  [shared EXCEPT !.reflection =
         IF Len(pushed) > MaxReflections + 1 THEN Tail(pushed) ELSE pushed]

\* addReflection(color, reflection): push, then shift when longer than 5
ReflectionAdded(shared, color, reflection) ==
  LET pushed == Append(shared.reflection, reflection)
  IN  [shared EXCEPT !.reflection =
         IF Len(pushed) > MaxReflections THEN Tail(pushed) ELSE pushed]

\* storeMoveEvaluations(color, evaluations)
MoveEvaluationsStored(store, color, evaluations) ==
  [store EXCEPT ![color].moveEvaluations = Slice0(evaluations, 3)]

\* variant of resetMemory that copies the black slot into the white one
MemoryResetSwapped(store) ==
  [c \in Colors |-> IF c = "white" THEN store["black"] ELSE InitialOwnFields]

\* resetMemory(): both slots become fresh shallow copies of initialMemory
MemoryReset(store) ==
  [c \in Colors |-> InitialOwnFields]

\* variant of shouldUpdateShortTermGoals with a threshold of two
shouldUpdateShortTermGoalsEarly(color, currentMoveNumber) ==
  currentMoveNumber - memoryStore[color].lastUpdatedShortTerm >= 2

\* shouldUpdateShortTermGoals(color, currentMoveNumber)
shouldUpdateShortTermGoals(color, currentMoveNumber) ==
  currentMoveNumber - memoryStore[color].lastUpdatedShortTerm >= 3

\* shouldUpdateLongTermGoals(color, currentMoveNumber)
shouldUpdateLongTermGoals(color, currentMoveNumber) ==
  currentMoveNumber - memoryStore[color].lastUpdatedLongTerm >= 6

----------------------------------------------------------------------------
(* Strategy planner results and updatePlayerStrategy (aiService.ts) *)

\* moveCount < 10: the ply from which a stored opening is kept
OpeningLockPly == 10

\* the reflection planStrategy returns from its catch block
PlannerErrorReflection == "Error in strategic planning. Proceeding with existing strategy."

\* planStrategy's result when the language-model call fails
PlannerFailed ==
  [opening |-> UndefinedText, shortTermGoals |-> << >>, longTermGoals |-> << >>,
   reflection |-> PlannerErrorReflection]

\* variant of the opening rule without the lock
ShouldSetOpeningAlways(storedOpening, opening, moveCount) == TruthyText(opening)

\* strategy.opening && (!getMemory(color).opening || moveCount < 10)
ShouldSetOpening(storedOpening, opening, moveCount) ==
  TruthyText(opening) /\ (~TruthyText(storedOpening) \/ moveCount < OpeningLockPly)

\* variant of updatePlayerStrategy that writes the goal lists even when empty
StrategyAppliedAlways(mem, color, moveCount, strategy) ==
  LET playerMoveCount == CeilHalf(moveCount)
      s1 == IF ShouldSetOpening(mem.store[color].opening, strategy.opening, moveCount)
            THEN OpeningSet(mem.store, color, strategy.opening)
            ELSE mem.store
      s2 == ShortTermGoalsUpdated(s1, color, strategy.shortTermGoals, playerMoveCount)
      s3 == LongTermGoalsUpdated(s2, color, strategy.longTermGoals, playerMoveCount)
      sh == IF strategy.reflection # EmptyString
            THEN ReflectionAdded(mem.shared, color, strategy.reflection)
            ELSE mem.shared
  IN  [store |-> s3, shared |-> sh]

\* updatePlayerStrategy after planStrategy returned `strategy`;
\* mem is [store, shared], the result is the memory after the updates
StrategyApplied(mem, color, moveCount, strategy) ==
  LET playerMoveCount == CeilHalf(moveCount)
      s1 == IF ShouldSetOpening(mem.store[color].opening, strategy.opening, moveCount)
            THEN OpeningSet(mem.store, color, strategy.opening)
            ELSE mem.store
      s2 == IF Len(strategy.shortTermGoals) > 0
            THEN ShortTermGoalsUpdated(s1, color, strategy.shortTermGoals, playerMoveCount)
            ELSE s1
      s3 == IF Len(strategy.longTermGoals) > 0
            THEN LongTermGoalsUpdated(s2, color, strategy.longTermGoals, playerMoveCount)
            ELSE s2
      sh == IF strategy.reflection # EmptyString
            THEN ReflectionAdded(mem.shared, color, strategy.reflection)
            ELSE mem.shared
  IN  [store |-> s3, shared |-> sh]

----------------------------------------------------------------------------
(* ChessService *)

\* new Chess() / chess.reset()
InitialChess == [pos |-> StartPos, history |-> << >>]

\* variant of getGameState that names the side to move as the winner
getGameStateWinnerIsMover(ch) ==
  [fen |-> ch.pos,
   turn |-> Turn(ch.pos),
   history |-> ch.history,
   gameOver |-> IsGameOver(ch.pos),
   checkmate |-> IsCheckmate(ch.pos),
   draw |-> IsDraw(ch.pos),
   inCheck |-> InCheck(ch.pos),
   winner |-> IF IsCheckmate(ch.pos)
              THEN (IF Turn(ch.pos) = "w" THEN "white" ELSE "black")
              ELSE Null]

\* getGameState(): fen is the position identifier
getGameState(ch) ==
  [fen |-> ch.pos,
   turn |-> Turn(ch.pos),
   history |-> ch.history,
   gameOver |-> IsGameOver(ch.pos),
   checkmate |-> IsCheckmate(ch.pos),
   draw |-> IsDraw(ch.pos),
   inCheck |-> InCheck(ch.pos),
   winner |-> IF IsCheckmate(ch.pos)
              THEN (IF Turn(ch.pos) = "w" THEN "black" ELSE "white")
              ELSE Null]

\* getAllLegalMoves()
getAllLegalMoves(ch) == LegalMovesOf(ch.pos)

\* chess.js move({from, to, promotion}): the legal moves the object selects
ChessJsMatches(move, legalMove) ==
  /\ move.from = legalMove.from
  /\ move.to = legalMove.to
  /\ (legalMove.promotion = Undefined \/ move.promotion = legalMove.promotion)

\* variant of makeMove that applies the move without asking chess.js
makeMoveUnchecked(ch, move) ==
  LET played == Mv(move.from, move.to, move.promotion, "unknown", Turn(ch.pos),
                   San("unknown", ""))
  IN  [result |-> << played >>,
       raised |-> FALSE,
       chess  |-> [pos |-> ch.pos, history |-> Append(ch.history, played)]]

\* chess.js move({from, to, promotion}): throws when the object selects no
\* legal move (an illegal move, an unknown square, a missing field) and
\* otherwise plays the first legal move it selects
ChessJsMove(ch, move) ==
  LET table   == MoveTable(ch.pos)
      indices == {i \in DOMAIN table : ChessJsMatches(move, table[i].m)}
  IN  IF indices = {}
      THEN [threw |-> TRUE, result |-> << >>, chess |-> ch]
      ELSE LET i == CHOOSE j \in indices : \A k \in indices : j <= k
           IN  [threw |-> FALSE,
                result |-> << table[i].m >>,
                chess  |-> [pos |-> table[i].next,
                            history |-> Append(ch.history, table[i].m)]]

\* variant of makeMove whose catch block rethrows
makeMoveRethrows(ch, move) ==
  LET r == ChessJsMove(ch, move)
  IN  [result |-> r.result, raised |-> r.threw, chess |-> r.chess]

\* makeMove(move): [result, raised, chess]; result is << >> for null, <<Move>>
\* on success.  The try block (76) encloses the whole body and the catch
\* block (108-117) returns null, so nothing chess.js throws leaves makeMove.
makeMove(ch, move) ==
  LET r == ChessJsMove(ch, move)
  IN  [result |-> r.result, raised |-> FALSE, chess |-> r.chess]

----------------------------------------------------------------------------
(* Candidate moves and the two validators *)

\* {from, to, promotion} of a Move
AsCandidate(m) == [from |-> m.from, to |-> m.to, promotion |-> m.promotion]

\* the placeholder when no move is returned
NoCandidate == [from |-> Undefined, to |-> Undefined, promotion |-> Undefined]

\* variant of the advanced predicate that compares promotions strictly only
AdvancedMatchesStrict(move, legalMove) ==
  /\ legalMove.from = move.from
  /\ legalMove.to = move.to
  /\ move.promotion = legalMove.promotion

\* aiService.ts 422-426: the predicate inside legalMoves.some(...)
AdvancedMatches(move, legalMove) ==
  /\ legalMove.from = move.from
  /\ legalMove.to = move.to
  /\ \/ move.promotion = legalMove.promotion
     \/ (~Truthy(move.promotion) /\ ~Truthy(legalMove.promotion))

\* strategyService.ts 414-418: the predicate inside legalMoves.some(...)
BasicMatches(move, legalMove) ==
  /\ legalMove.from = move.from
  /\ legalMove.to = move.to
  /\ IF Truthy(move.promotion)
     THEN legalMove.promotion = move.promotion
     ELSE ~Truthy(legalMove.promotion)

\* aiService.ts 420-426: move && move.from && move.to && legalMoves.some(...);
\* `move` is << >> for null and <<candidate>> otherwise
AdvancedIsLegal(move, legalMoves) ==
  /\ move # << >>
  /\ Truthy(move[1].from)
  /\ Truthy(move[1].to)
  /\ \E i \in DOMAIN legalMoves : AdvancedMatches(move[1], legalMoves[i])

\* strategyService.ts 399, 414-418
BasicIsLegal(move, legalMoves) ==
  /\ move # << >>
  /\ \E i \in DOMAIN legalMoves : BasicMatches(move[1], legalMoves[i])

----------------------------------------------------------------------------
(* Advanced pipeline: fetchNextMove after the move-oracle call (aiService.ts) *)

\* the outcome of one makeAIMove pipeline: a returned move or a thrown error
Returned(move, analysis, shared, via) ==
  [ret |-> "move", move |-> move, analysis |-> analysis, shared |-> shared, via |-> via]

\* variant that hands back a result without a move instead of raising
ReturnedEmpty(shared) ==
  [ret |-> "move", move |-> NoCandidate, analysis |-> EmptyString,
   shared |-> shared, via |-> "none"]

Thrown(shared) ==
  [ret |-> "throw", move |-> NoCandidate, analysis |-> EmptyString,
   shared |-> shared, via |-> "none"]

\* aiService.ts 430-441: the accepted candidate is recorded with placeholders
AcceptedMoveObj(move, color) ==
  Mv(move.from, move.to, move.promotion, "unknown",
     IF color = "white" THEN "w" ELSE "b", San("unknown", ""))

\* variant of the fallback that returns the random move without a note
AdvancedFallbackSilent(legalMoves, color, shared, analysis) ==
  { Returned(AsCandidate(legalMoves[i]), EmptyString,
             MoveHistoryUpdated(shared, color, legalMoves[i]), "fallback")
      : i \in DOMAIN legalMoves }

\* a random legal move, recorded in memory and returned (448-458, 467-478)
AdvancedFallback(legalMoves, color, shared, analysis) ==
  { Returned(AsCandidate(legalMoves[i]), analysis,
             MoveHistoryUpdated(shared, color, legalMoves[i]), "fallback")
      : i \in DOMAIN legalMoves }

\* variant of the catch block that always rethrows
AdvancedCatchRethrows(freshLegalMoves, color, shared) == {Thrown(shared)}

\* the catch block (463-482): fresh legal moves, or the error is rethrown
AdvancedCatch(freshLegalMoves, color, shared) ==
  IF Len(freshLegalMoves) > 0
  THEN AdvancedFallback(freshLegalMoves, color, shared,
                        "Error occurred. Random move selected.")
  ELSE {Thrown(shared)}

\* the possible outcomes of fetchNextMove once the oracle call has ended:
\* response.kind is "throw" (the call or JSON.parse raised) or "ok" with the
\* extracted move and the message content
AdvancedOutcomes(response, legalMoves, freshLegalMoves, color, shared) ==
  IF response.kind = "throw"
  THEN AdvancedCatch(freshLegalMoves, color, shared)
  ELSE IF AdvancedIsLegal(response.move, legalMoves)
  THEN { Returned(response.move[1], response.content,
                  MoveHistoryUpdated(shared, color,
                                     AcceptedMoveObj(response.move[1], color)),
                  "candidate") }
  ELSE IF Len(legalMoves) > 0
  THEN AdvancedFallback(legalMoves, color, shared, "Random move selected (fallback).")
  ELSE AdvancedCatch(freshLegalMoves, color, shared)

----------------------------------------------------------------------------
(* Basic pipeline: fetchNextMoveSimple (strategyService.ts) *)

\* variant with one more attempt
MaxRetriesPlusOne == 3 + 1

\* maxRetries
MaxRetries == 3

\* SAN bodies that pass the format test of extractMoveFromResponse (315-316)
WellFormedBodies == {"f3", "g4", "e5", "Kf2", "Bg2", "Qh4", "Nc6", "Ke2", "O-O"}

\* lastMove.replace(/[.+#!?]+$/, ''): the token without its trailing marks
StripMarks(token) == San(token[1], "")

\* extractMoveFromResponse, from the last move token of the reply on:
\* strip, format test, then legalMoves.find(move => move.san === lastMove)
\* on the current position; << >> is null
ExtractMove(token, currentLegalMoves) ==
  LET lastMove == StripMarks(token)
      found == {i \in DOMAIN currentLegalMoves : currentLegalMoves[i].san = lastMove}
  IN  IF lastMove[1] \notin WellFormedBodies \/ found = {}
      THEN << >>
      ELSE << AsCandidate(currentLegalMoves[CHOOSE j \in found : \A k \in found : j <= k]) >>

\* one attempt failed: the reply was missing, unparseable or illegal
BasicAttemptFailed(response, legalMoves, currentLegalMoves) ==
  \/ response.kind = "throw"
  \/ response.content = EmptyString
  \/ ~BasicIsLegal(ExtractMove(response.token, currentLegalMoves), legalMoves)

\* variant of the fallback that gives up without a move
BasicFallbackRaises(currentLegalMoves, shared) == {Thrown(shared)}

\* the fallback after the loop (460-477); memory is not touched
BasicFallback(currentLegalMoves, shared) ==
  IF Len(currentLegalMoves) > 0
  THEN { Returned(AsCandidate(currentLegalMoves[i]), "AI failed. Fallback random move",
                  shared, "fallback") : i \in DOMAIN currentLegalMoves }
  ELSE {Thrown(shared)}

\* the moveAnalysis texts the two pipelines give a random fallback move
\* (aiService.ts 457 and 477, strategyService.ts 473)
FallbackAnnotations ==
  { "Random move selected (fallback).", "Error occurred. Random move selected.",
    "AI failed. Fallback random move" }

----------------------------------------------------------------------------
(* Inputs *)

\* most makeAIMove invocations suspended at an await at one time
MaxInFlight == 2

\* most Reset clicks in one behaviour
MaxResets == 1

\* most makeAIMove invocations in a behaviour with a Reset click
MaxTurns == 3

Slots == 1..MaxInFlight

\* the values the Simple and Complex buttons of the control panel pass to
\* handleGameModeChange (the vs AI button is not pressed here)
ModeButtons == {"simple", "complex"}

\* App.tsx 297: the game modes served by the basic pipeline
UsesBasicPipeline(mode) == mode \in {"ai-vs-ai-simple", "human-vs-ai-simple"}

PipelineOf(mode) == IF UsesBasicPipeline(mode) THEN "basic" ELSE "advanced"

\* message content of a move-oracle reply: absent/empty, or some analysis text
Contents == {EmptyString, "analysis"}

\* a candidate no position of the game accepts, and one without a `from`
BogusCandidates ==
  { [from |-> "a1", to |-> "a8", promotion |-> Undefined],
    [from |-> Undefined, to |-> "f3", promotion |-> Undefined] }

\* candidates the move oracle may propose: every move of the game with the
\* promotion absent or null, and the bogus ones
Candidates ==
  { [from |-> m.from, to |-> m.to, promotion |-> p] :
      m \in AllMoves, p \in {Undefined, Null} } \cup BogusCandidates

\* replies of the move oracle in the advanced protocol, after extraction
AdvancedFailures ==
  { [kind |-> "throw", content |-> EmptyString, move |-> << >>] }
  \cup { [kind |-> "ok", content |-> c, move |-> << >>] : c \in Contents }
  \cup { [kind |-> "ok", content |-> c, move |-> << b >>] :
           c \in Contents, b \in BogusCandidates }

AdvancedResponses ==
  AdvancedFailures
  \cup { [kind |-> "ok", content |-> c, move |-> << m >>] : c \in Contents, m \in Candidates }

\* last move tokens of a PGN-continuation reply
Tokens ==
  { m.san : m \in AllMoves } \cup { San("Ke2", ""), San("hello", "") }

\* replies of the move oracle in the basic protocol
BasicFailures ==
  { [kind |-> "throw", content |-> EmptyString, token |-> San("", "")],
    [kind |-> "ok", content |-> EmptyString, token |-> San("", "")],
    [kind |-> "ok", content |-> "pgn", token |-> San("Ke2", "")],
    [kind |-> "ok", content |-> "pgn", token |-> San("hello", "")] }

BasicResponses ==
  BasicFailures
  \cup { [kind |-> "ok", content |-> "pgn", token |-> t] : t \in Tokens }

\* a goal list longer than the cap
LongGoals == <<"g1", "g2", "g3", "g4">>

\* parsed planner results used in the game loop
LoopStrategies ==
  { [opening |-> <<"S">>, shortTermGoals |-> <<"g1">>, longTermGoals |-> << >>,
     reflection |-> EmptyString] }

\* results of planStrategy in the game loop
PlannerResults == LoopStrategies \cup {PlannerFailed}

----------------------------------------------------------------------------
(* StockfishService (stockfishService.ts): state.  A request is one
   evaluatePosition(fen, callback) call; requests are numbered in call order
   and the number stands for the callback and for the FEN. *)

\* most evaluatePosition calls in one behaviour
MaxEvaluations == 2

\* most messages of the worker waiting to be handled by onmessage
MaxOutbox == 2

Requests == 1..MaxEvaluations

\* null, for currentCallback and evaluationTimeout
NoRequest == 0

\* most destroy() calls in one behaviour
MaxDestroys == 1

\* the fields as declared (31-40); initializationPromise is "null", "pending",
\* "resolved" or "rejected".  Two counters record history: the Workers
\* created since the last destroy(), and the destroy() calls so far.
InitialStockfish ==
  [worker |-> FALSE, isReady |-> FALSE, currentCallback |-> NoRequest,
   evaluationTimeout |-> NoRequest, initializationPromise |-> "null",
   initializationFailed |-> FALSE, created |-> 0, destroys |-> 0]

\* no timeout is armed: the 10 s initTimeout, the 3 s evaluation timeouts and
\* the 100 ms timeouts that deliver a synthetic result.  staleInit holds the
\* initTimeouts that destroy() left armed, oldest first, each with the
\* requests that await the promise it rejects.
NoTimers == [init |-> FALSE, evaluation |-> {}, synthetic |-> {}, staleInit |-> << >>]

\* no Worker exists
NoEngine == [alive |-> FALSE, read |-> 0, position |-> NoRequest, search |-> NoRequest,
             outbox |-> << >>]

\* a request that has not been made
NoEval == [stage |-> "unused", stopped |-> FALSE, results |-> {}]

InitEngine ==
  /\ stockfish = InitialStockfish
  /\ timers = NoTimers
  /\ posted = << >>
  /\ engine = NoEngine
  /\ evals = [r \in Requests |-> NoEval]
  /\ bar = FALSE

----------------------------------------------------------------------------
(* The App component (App.tsx) *)

\* a free slot of `calls`
IdleCall ==
  [stage |-> "idle", pipeline |-> "", color |-> "", moveCount |-> 0, attempt |-> 0,
   legalPos |-> ""]

NoCommit ==
  [via |-> "none", pipeline |-> "", stale |-> FALSE, analysis |-> EmptyString]

\* getCurrentPlayer().color
TurnColor(t) == IF t = "w" THEN "white" ELSE "black"

\* a PlayerConfig (App.tsx 142-153); whether its model is set is modelsLoaded
Player(color, type) == [color |-> color, type |-> type]

\* gameMode.startsWith('human-vs-ai')
StartsWithHumanVsAi(mode) ==
  mode \in {"human-vs-ai", "human-vs-ai-simple", "human-vs-ai-complex"}

\* getCurrentPlayer (237-239) for the snapshot gs
getCurrentPlayer(gs, white, black) == IF gs.turn = "w" THEN white ELSE black

\* variant of isHumanTurn that does not look at the player to move
isHumanTurnAnyPlayer(mode, gs, white, black) == StartsWithHumanVsAi(mode)

\* isHumanTurn (242-246) for the snapshot gs
isHumanTurn(mode, gs, white, black) ==
  IF ~StartsWithHumanVsAi(mode) THEN FALSE
  ELSE getCurrentPlayer(gs, white, black).type = "human"

\* getHumanColor (249-252) with the `|| 'white'` of the Chessboard prop (484)
getHumanColor(mode, white) ==
  IF ~StartsWithHumanVsAi(mode) THEN "white"
  ELSE IF white.type = "human" THEN "white" ELSE "black"

\* the guard of the AI loop effect (279): a timeout is set iff it passes; the
\* mode and the players are those of the render the effect belongs to
EffectArmsTimer(running, gs) ==
  running /\ ~gs.gameOver /\ ~isHumanTurn(gameMode, gs, whitePlayer, blackPlayer)

memVars == <<initialMemory, memoryStore>>

appVars ==
  <<chess, gameState, gameMode, whitePlayer, blackPlayer, modelsLoaded, isGameRunning, isThinking,
    currentMoveAnalysis, timer, calls, resets, turns, lastCommit>>

\* the variables of the engine service and of the extraction and move-service harnesses
engineVars == <<stockfish, timers, posted, engine, evals, bar>>

auxVars == <<extraction, service, probe, engineVars>>

harnessVars == <<resetRun, lastStrategy, validation, auxVars>>

vars == <<memVars, appVars, harnessVars>>

NoStrategy == [case |-> "none"]

NoValidation ==
  [done |-> FALSE, move |-> NoCandidate,
   legalMove |-> Mv("", "", Undefined, "", "", San("", "")),
   advanced |-> FALSE, basic |-> FALSE]

\* no model output has been handed to the extraction paths
NoExtraction ==
  [done |-> FALSE, output |-> << >>, pos |-> StartPos,
   structured |-> [kind |-> "ok", content |-> EmptyString, move |-> << >>],
   freeText |-> [kind |-> "ok", content |-> EmptyString, move |-> << >>]]

\* no call of a move service is under way
NoService ==
  [stage |-> "idle", pipeline |-> "", color |-> "", moveCount |-> 0, attempt |-> 0,
   oracleCalls |-> 0, plannerFailed |-> FALSE, move |-> NoCandidate, via |-> "none",
   analysis |-> EmptyString,
   before |-> [store |-> InitialStore, shared |-> InitialShared]]

\* no call has been made in a single-call harness
NoProbe == [op |-> "none"]

\* the program after construction
InitProgram ==
  /\ chess = InitialChess
  /\ initialMemory = InitialShared
  /\ memoryStore = InitialStore
  /\ gameState = getGameState(InitialChess)
  /\ gameMode = "ai-vs-ai-simple"
  /\ whitePlayer = Player("white", "ai")
  /\ blackPlayer = Player("black", "ai")
  /\ modelsLoaded = FALSE
  /\ isGameRunning = FALSE
  /\ isThinking = FALSE
  /\ currentMoveAnalysis = EmptyString
  /\ timer = FALSE
  /\ calls = [slot \in Slots |-> IdleCall]
  /\ resets = 0
  /\ turns = 0
  /\ lastCommit = NoCommit

Init ==
  /\ InitProgram
  /\ resetRun = 0
  /\ lastStrategy = NoStrategy
  /\ validation = NoValidation
  /\ extraction = NoExtraction
  /\ service = NoService
  /\ probe = NoProbe
  /\ InitEngine

\* fetchModels (178-206): the players' default models are set
ModelsLoaded ==
  /\ ~modelsLoaded
  /\ modelsLoaded' = TRUE
  /\ UNCHANGED <<memVars, harnessVars, chess, gameState, gameMode, whitePlayer, blackPlayer, isGameRunning,
                 isThinking, currentMoveAnalysis, timer, calls, resets, turns, lastCommit>>

\* handleGameModeChange of the control panel, whose buttons are disabled while
\* the game runs: the mode is set and both players get a model
GameModeChangeTo(mode) ==
  /\ ~isGameRunning
  /\ gameMode' = mode
  /\ whitePlayer' = Player("white", IF mode = "human-vs-ai" THEN "human" ELSE "ai")
  /\ blackPlayer' = Player("black", "ai")
  /\ modelsLoaded' = TRUE
  /\ UNCHANGED <<memVars, harnessVars, chess, gameState, isGameRunning,
                 isThinking, currentMoveAnalysis, timer, calls, resets, turns, lastCommit>>

GameModeChange == \E mode \in ModeButtons : GameModeChangeTo(mode)

\* handleStartGame; the Start button is enabled by canStartGame()
StartGame ==
  /\ ~isGameRunning
  /\ modelsLoaded
  /\ isGameRunning' = TRUE
  /\ timer' = EffectArmsTimer(TRUE, gameState)
  /\ UNCHANGED <<memVars, harnessVars, chess, gameState, gameMode, whitePlayer, blackPlayer, modelsLoaded,
                 isThinking, currentMoveAnalysis, calls, resets, turns, lastCommit>>

\* handleResetGame; the effect's cleanup clears the pending timeout and the
\* effect returns early; suspended makeAIMove invocations are not touched
ResetGame ==
  /\ resets < MaxResets
  /\ resets' = resets + 1
  /\ chess' = InitialChess
  /\ gameState' = getGameState(InitialChess)
  /\ isGameRunning' = FALSE
  /\ isThinking' = FALSE
  /\ currentMoveAnalysis' = EmptyString
  /\ memoryStore' = MemoryReset(memoryStore)
  /\ timer' = EffectArmsTimer(FALSE, getGameState(InitialChess))
  /\ UNCHANGED <<initialMemory, harnessVars, gameMode, whitePlayer, blackPlayer, modelsLoaded, calls, turns,
                 lastCommit>>

\* the timeout fires: makeAIMove runs up to its first await
TimerFires ==
  /\ timer
  /\ resets = 0 \/ turns < MaxTurns
  /\ turns' = turns + 1
  /\ timer' = FALSE
  /\ isThinking' = TRUE
  /\ \E slot \in Slots :
       /\ calls[slot].stage = "idle"
       /\ \A k \in Slots : k < slot => calls[k].stage # "idle"
       /\ calls' =
            [calls EXCEPT ![slot] =
               [stage |-> IF UsesBasicPipeline(gameMode) THEN "oracle" ELSE "planner",
                pipeline |-> PipelineOf(gameMode),
                color |-> TurnColor(gameState.turn),
                moveCount |-> Len(gameState.history),
                attempt |-> IF UsesBasicPipeline(gameMode) THEN 1 ELSE 0,
                legalPos |-> IF UsesBasicPipeline(gameMode) THEN chess.pos ELSE ""]]
  /\ UNCHANGED <<memVars, harnessVars, chess, gameState, gameMode, whitePlayer, blackPlayer, modelsLoaded,
                 isGameRunning, currentMoveAnalysis, resets, lastCommit>>

\* planStrategy's call ends: updatePlayerStrategy updates the memory, then
\* fetchNextMove reads the legal moves and awaits the move oracle
PlannerStep(slot, strategy) ==
  /\ calls[slot].stage = "planner"
  /\ LET mem == StrategyApplied([store |-> memoryStore, shared |-> initialMemory],
                                calls[slot].color, calls[slot].moveCount, strategy)
     IN  /\ memoryStore' = mem.store
         /\ initialMemory' = mem.shared
  /\ calls' = [calls EXCEPT ![slot].stage = "oracle", ![slot].legalPos = chess.pos]
  /\ UNCHANGED <<harnessVars, chess, gameState, gameMode, whitePlayer, blackPlayer, modelsLoaded, isGameRunning,
                 isThinking, currentMoveAnalysis, timer, resets, turns, lastCommit>>

PlannerReturns == \E slot \in Slots, strategy \in PlannerResults : PlannerStep(slot, strategy)

\* makeAIMove from the pipeline's outcome on (313-332)
Finish(slot, out) ==
  LET made == IF out.ret = "move"
              THEN makeMove(chess, out.move)
              ELSE [result |-> << >>, chess |-> chess]
      ok == made.result # << >>
  IN  /\ initialMemory' = out.shared
      /\ chess' = made.chess
      /\ gameState' = IF ok THEN getGameState(made.chess) ELSE gameState
      /\ currentMoveAnalysis' =
           IF ok /\ out.analysis # EmptyString THEN out.analysis ELSE currentMoveAnalysis
      /\ timer' = IF ok THEN EffectArmsTimer(isGameRunning, getGameState(made.chess))
                  ELSE timer
      /\ isThinking' = FALSE
      /\ calls' = [calls EXCEPT ![slot] = IdleCall]
      /\ lastCommit' =
           IF ok
           THEN [via |-> out.via, pipeline |-> calls[slot].pipeline,
                 stale |-> ~isGameRunning, analysis |-> out.analysis]
           ELSE lastCommit
      /\ UNCHANGED <<memoryStore, harnessVars, gameMode, whitePlayer, blackPlayer, modelsLoaded, isGameRunning,
                     resets, turns>>

\* the advanced protocol's move-oracle call ends
AdvancedOracleStep(slot, response) ==
  /\ calls[slot].stage = "oracle"
  /\ calls[slot].pipeline = "advanced"
  /\ \E out \in AdvancedOutcomes(response, LegalMovesOf(calls[slot].legalPos),
                                 getAllLegalMoves(chess), calls[slot].color,
                                 initialMemory) :
       Finish(slot, out)

AdvancedOracleReturns ==
  \E slot \in Slots, response \in AdvancedResponses : AdvancedOracleStep(slot, response)

\* the basic protocol's move-oracle call ends: the move is returned, or the
\* loop goes to its next attempt and awaits again, or the fallback is taken
BasicOracleStep(slot, response) ==
  /\ calls[slot].stage = "oracle"
  /\ calls[slot].pipeline = "basic"
  /\ LET legalMoves == LegalMovesOf(calls[slot].legalPos)
         current == getAllLegalMoves(chess)
     IN  IF ~BasicAttemptFailed(response, legalMoves, current)
         THEN Finish(slot, Returned(ExtractMove(response.token, current)[1], "plays",
                                    initialMemory, "candidate"))
         ELSE IF calls[slot].attempt < MaxRetries /\ Len(current) > 0
         THEN /\ calls' = [calls EXCEPT ![slot].attempt = @ + 1,
                                        ![slot].legalPos = chess.pos]
              /\ UNCHANGED <<memVars, harnessVars, chess, gameState, gameMode, whitePlayer, blackPlayer,
                             modelsLoaded, isGameRunning, isThinking,
                             currentMoveAnalysis, timer, resets, turns, lastCommit>>
         ELSE \E out \in BasicFallback(current, initialMemory) : Finish(slot, out)

BasicOracleReturns ==
  \E slot \in Slots, response \in BasicResponses : BasicOracleStep(slot, response)

Next ==
  \/ ModelsLoaded
  \/ GameModeChange
  \/ StartGame
  \/ ResetGame
  \/ TimerFires
  \/ PlannerReturns
  \/ AdvancedOracleReturns
  \/ BasicOracleReturns

Spec == Init /\ [][Next]_vars

----------------------------------------------------------------------------
(* The game loop without Reset and with a move oracle that always fails *)

AdvancedOracleFails ==
  \E slot \in Slots, response \in AdvancedFailures : AdvancedOracleStep(slot, response)

BasicOracleFails ==
  \E slot \in Slots, response \in BasicFailures : BasicOracleStep(slot, response)

NextFallback ==
  \/ ModelsLoaded
  \/ GameModeChange
  \/ StartGame
  \/ TimerFires
  \/ PlannerReturns
  \/ AdvancedOracleFails
  \/ BasicOracleFails

\* the timeout fires once set, and every awaited call ends (by failing)
SpecFallback ==
  /\ Init
  /\ [][NextFallback]_vars
  /\ WF_vars(TimerFires)
  /\ WF_vars(PlannerReturns)
  /\ WF_vars(AdvancedOracleFails)
  /\ WF_vars(BasicOracleFails)

----------------------------------------------------------------------------
(* The Memory Store driven through its interface *)

\* most moves recorded by updateMoveHistory in one behaviour
MaxHistory == 2

\* largest move number handed to the goal updates
MaxMoveNumber == 1

\* moves handed to updateMoveHistory: White's f3 and Black's e5
HarnessMoves == { MoveTable("start")[1].m, MoveTable("f3")[1].m }

\* reflections handed to addReflection
Reflections == {"r1"}

\* goal lists handed to the goal updates: one goal, more than the cap
HarnessGoals == { <<"g1">>, LongGoals }

\* consecutive resetMemory() calls are counted up to the second
NextResetRun == IF resetRun < 2 THEN resetRun + 1 ELSE resetRun

UpdateMoveHistory(color, move) ==
  /\ Len(initialMemory.moveHistory) < MaxHistory
  /\ initialMemory' = MoveHistoryUpdated(initialMemory, color, move)
  /\ resetRun' = 0
  /\ UNCHANGED <<memoryStore, appVars, lastStrategy, validation, auxVars>>

SetOpening(color, opening) ==
  /\ memoryStore' = OpeningSet(memoryStore, color, opening)
  /\ resetRun' = 0
  /\ UNCHANGED <<initialMemory, appVars, lastStrategy, validation, auxVars>>

UpdateShortTermGoals(color, goals, moveNumber) ==
  /\ memoryStore' = ShortTermGoalsUpdated(memoryStore, color, goals, moveNumber)
  /\ resetRun' = 0
  /\ UNCHANGED <<initialMemory, appVars, lastStrategy, validation, auxVars>>

UpdateLongTermGoals(color, goals, moveNumber) ==
  /\ memoryStore' = LongTermGoalsUpdated(memoryStore, color, goals, moveNumber)
  /\ resetRun' = 0
  /\ UNCHANGED <<initialMemory, appVars, lastStrategy, validation, auxVars>>

AddReflection(color, reflection) ==
  /\ initialMemory' = ReflectionAdded(initialMemory, color, reflection)
  /\ resetRun' = 0
  /\ UNCHANGED <<memoryStore, appVars, lastStrategy, validation, auxVars>>

ResetMemory ==
  /\ memoryStore' = MemoryReset(memoryStore)
  /\ resetRun' = NextResetRun
  /\ UNCHANGED <<initialMemory, appVars, lastStrategy, validation, auxVars>>

NextMemory ==
  \/ \E c \in Colors, m \in HarnessMoves : UpdateMoveHistory(c, m)
  \/ \E c \in Colors, t \in Texts : SetOpening(c, t)
  \/ \E c \in Colors, g \in HarnessGoals, n \in 1..MaxMoveNumber : UpdateShortTermGoals(c, g, n)
  \/ \E c \in Colors, g \in HarnessGoals, n \in 1..MaxMoveNumber : UpdateLongTermGoals(c, g, n)
  \/ \E c \in Colors, r \in Reflections : AddReflection(c, r)
  \/ ResetMemory

SpecMemory == Init /\ [][NextMemory]_vars

----------------------------------------------------------------------------
(* updatePlayerStrategy driven with planner results around the opening lock *)

\* how far below and above ply 10 the ply counts are drawn
PlyWindow == 1

PlyCounts == (OpeningLockPly - PlyWindow)..(OpeningLockPly + PlyWindow)

\* parseStrategyResponse: the opening is the trimmed, non-empty rest of its line
StrategyOpenings == { t \in Texts : Trim(t) = t }

\* results of planStrategy handed to updatePlayerStrategy
HarnessStrategies ==
  { [opening |-> o, shortTermGoals |-> << >>, longTermGoals |-> << >>,
     reflection |-> EmptyString] : o \in StrategyOpenings }
  \cup { [opening |-> UndefinedText, shortTermGoals |-> LongGoals,
          longTermGoals |-> <<"g1">>, reflection |-> EmptyString],
         PlannerFailed }

\* which case of the opening rule a call falls under
StrategyCase(storedOpening, opening, moveCount) ==
  IF ~TruthyText(opening) THEN "none"
  ELSE IF moveCount < OpeningLockPly THEN "early"
  ELSE IF TruthyText(storedOpening) /\ storedOpening # Trim(SplitFirst(opening))
  THEN "locked"
  ELSE "late"

UpdatePlayerStrategy(color, moveCount, strategy) ==
  /\ LET mem == StrategyApplied([store |-> memoryStore, shared |-> initialMemory],
                                color, moveCount, strategy)
     IN  /\ memoryStore' = mem.store
         /\ initialMemory' = mem.shared
  /\ lastStrategy' =
       [case |-> StrategyCase(memoryStore[color].opening, strategy.opening, moveCount)]
  /\ UNCHANGED <<appVars, resetRun, validation, auxVars>>

NextStrategy ==
  \E c \in Colors, n \in PlyCounts, s \in HarnessStrategies : UpdatePlayerStrategy(c, n, s)

SpecStrategy == Init /\ [][NextStrategy]_vars

----------------------------------------------------------------------------
(* The two validators applied to one candidate and one legal move *)

ValidatorSquares == {"a7", "a8", "b8"}

CandidatePromotions == {Undefined, Null, EmptyString, "q", "n"}

\* chess.js sets promotion on promotion moves only
LegalPromotions == {Undefined, "q", "n"}

ValidationInputs ==
  { [done |-> FALSE,
     move |-> [from |-> f, to |-> t, promotion |-> p],
     legalMove |-> Mv(lf, lt, lp, "p", "w", San("a8", "")),
     advanced |-> FALSE, basic |-> FALSE] :
      f \in ValidatorSquares, t \in ValidatorSquares, p \in CandidatePromotions,
      lf \in {"a7"}, lt \in {"a8", "b8"}, lp \in LegalPromotions }

InitValidator ==
  /\ InitProgram
  /\ resetRun = 0
  /\ lastStrategy = NoStrategy
  /\ validation \in ValidationInputs
  /\ extraction = NoExtraction
  /\ service = NoService
  /\ probe = NoProbe
  /\ InitEngine

Validate ==
  /\ ~validation.done
  /\ validation' =
       [validation EXCEPT
          !.done = TRUE,
          !.advanced = AdvancedIsLegal(<< validation.move >>, << validation.legalMove >>),
          !.basic = BasicIsLegal(<< validation.move >>, << validation.legalMove >>)]
  /\ UNCHANGED <<memVars, appVars, resetRun, lastStrategy, auxVars>>

NextValidator == Validate

SpecValidator == InitValidator /\ [][NextValidator]_vars

----------------------------------------------------------------------------
(* Extraction of the candidate from the move oracle's reply (aiService.ts
   376-417).  A model output is the text of a JSON object: its from, to and
   promotion members (Undefined: the member is missing) and whether the text
   is well-formed JSON. *)

\* the strings matched by [a-h][1-8]
IsSquare(v) == v \in {m.from : m \in AllMoves} \cup {m.to : m \in AllMoves} \cup {"a1", "a8"}

\* JSON.parse(text): << >> when it throws, else the parsed object
JsonParse(text) ==
  IF text.wellFormed
  THEN << [from |-> text.from, to |-> text.to, promotion |-> text.promotion] >>
  ELSE << >>

\* 409-416: the function_call arguments are parsed and from, to and promotion
\* are copied; a JSON.parse error leaves fetchNextMove's try block
StructuredExtract(arguments) ==
  LET args == JsonParse(arguments)
  IN  IF args = << >>
      THEN [kind |-> "throw", content |-> EmptyString, move |-> << >>]
      ELSE [kind |-> "ok", content |-> EmptyString,
            move |-> << [from |-> args[1].from, to |-> args[1].to,
                         promotion |-> args[1].promotion] >>]

\* 394-404: the members are read by three regular expressions
RegexExtract(content) ==
  IF IsSquare(content.from) /\ IsSquare(content.to)
  THEN << [from |-> content.from, to |-> content.to,
           promotion |-> IF content.promotion \in {"q", "r", "b", "n"}
                         THEN content.promotion ELSE Undefined] >>
  ELSE << >>

\* 380-405: the first {...} holding a "from" member is parsed; if that gives
\* no move the regular expressions are tried
FreeTextExtract(content) ==
  LET jsonMatch == content.from # Undefined
      parsed == IF jsonMatch THEN JsonParse(content) ELSE << >>
  IN  [kind |-> "ok", content |-> "analysis",
       move |-> IF parsed # << >> THEN parsed ELSE RegexExtract(content)]

\* model outputs: the moves of the game and two that are none, with the
\* promotion member missing, null, empty or a piece, well-formed or not
ExtractionOutputs ==
  { [wellFormed |-> w, from |-> c.from, to |-> c.to, promotion |-> p] :
      w \in BOOLEAN,
      c \in {AsCandidate(m) : m \in AllMoves}
            \cup { [from |-> "a1", to |-> "a8", promotion |-> Undefined],
                   [from |-> "F2", to |-> "f3", promotion |-> Undefined] },
      p \in {Undefined, Null, EmptyString, "q"} }

\* the moves fetchNextMove can return for a reply in position pos
ReturnedMoves(reply, pos) ==
  { IF out.ret = "move" THEN << out.move.from, out.move.to, out.move.promotion >>
    ELSE << >> :
      out \in AdvancedOutcomes(reply, LegalMovesOf(pos), LegalMovesOf(pos), TurnColor(Turn(pos)),
                               InitialShared) }

InitExtraction ==
  /\ InitProgram
  /\ resetRun = 0
  /\ lastStrategy = NoStrategy
  /\ validation = NoValidation
  /\ \E o \in ExtractionOutputs, pos \in Positions :
       extraction = [NoExtraction EXCEPT !.output = << o >>, !.pos = pos]
  /\ service = NoService
  /\ probe = NoProbe
  /\ InitEngine

\* the same output reaches fetchNextMove as function_call arguments and as
\* message content
Extract ==
  /\ ~extraction.done
  /\ extraction' =
       [extraction EXCEPT
          !.done = TRUE,
          !.structured = StructuredExtract(extraction.output[1]),
          !.freeText = FreeTextExtract(extraction.output[1])]
  /\ UNCHANGED <<memVars, appVars, resetRun, lastStrategy, validation, service, probe, engineVars>>

NextExtraction == Extract

SpecExtraction == InitExtraction /\ [][NextExtraction]_vars

----------------------------------------------------------------------------
(* One caller of the move services: aiService.getNextMove and
   simpleAiService.fetchNextMove called as makeAIMove calls them, one call at
   a time, in any position of the game including the final ones *)

Pipelines == {"advanced", "basic"}

\* the call's result reaches the caller
ServiceEnds(out, calls1) ==
  /\ initialMemory' = out.shared
  /\ service' = [service EXCEPT
                   !.stage = IF out.ret = "move" THEN "returned" ELSE "raised",
                   !.move = out.move,
                   !.via = out.via,
                   !.analysis = out.analysis,
                   !.oracleCalls = calls1]

\* the service is called with getGameState() and the player to move.
\* Advanced: fetchNextMove awaits updatePlayerStrategy (285).  Basic: the
\* loop reads the legal moves (355) and awaits the oracle, or every attempt
\* throws at 358 and the fallback throws at 477.
ServiceCall(pipeline) ==
  /\ service.stage = "idle"
  /\ LET started == [NoService EXCEPT
                       !.pipeline = pipeline,
                       !.color = TurnColor(Turn(chess.pos)),
                       !.moveCount = Len(chess.history),
                       !.before = [store |-> memoryStore, shared |-> initialMemory]]
     IN  service' =
           IF pipeline = "advanced"
           THEN [started EXCEPT !.stage = "planner"]
           ELSE IF Len(getAllLegalMoves(chess)) > 0
           THEN [started EXCEPT !.stage = "oracle", !.attempt = 1, !.oracleCalls = 1]
           ELSE [started EXCEPT !.stage = "raised", !.attempt = MaxRetries]
  /\ UNCHANGED <<memVars, appVars, resetRun, lastStrategy, validation, extraction, probe, engineVars>>

\* planStrategy's call ends; updatePlayerStrategy updates the memory and
\* fetchNextMove calls the move oracle
ServicePlannerStep(strategy) ==
  /\ service.stage = "planner"
  /\ LET mem == StrategyApplied([store |-> memoryStore, shared |-> initialMemory],
                                service.color, service.moveCount, strategy)
     IN  /\ memoryStore' = mem.store
         /\ initialMemory' = mem.shared
  /\ service' = [service EXCEPT !.stage = "oracle",
                                !.plannerFailed = (strategy = PlannerFailed),
                                !.oracleCalls = @ + 1]
  /\ UNCHANGED <<appVars, resetRun, lastStrategy, validation, extraction, probe, engineVars>>

ServicePlannerReturns == \E strategy \in PlannerResults : ServicePlannerStep(strategy)

\* the advanced protocol's move-oracle call ends
ServiceAdvancedStep(response) ==
  /\ service.stage = "oracle"
  /\ service.pipeline = "advanced"
  /\ \E out \in AdvancedOutcomes(response, getAllLegalMoves(chess), getAllLegalMoves(chess),
                                 service.color, initialMemory) :
       ServiceEnds(out, service.oracleCalls)
  /\ UNCHANGED <<memoryStore, appVars, resetRun, lastStrategy, validation, extraction, probe, engineVars>>

ServiceAdvancedReturns == \E response \in AdvancedResponses : ServiceAdvancedStep(response)

\* the basic protocol's move-oracle call ends
ServiceBasicStep(response) ==
  /\ service.stage = "oracle"
  /\ service.pipeline = "basic"
  /\ LET legalMoves == getAllLegalMoves(chess)
     IN  IF ~BasicAttemptFailed(response, legalMoves, legalMoves)
         THEN ServiceEnds(Returned(ExtractMove(response.token, legalMoves)[1], "plays",
                                   initialMemory, "candidate"),
                          service.oracleCalls)
         ELSE IF service.attempt < MaxRetries
         THEN /\ service' = [service EXCEPT !.attempt = @ + 1, !.oracleCalls = @ + 1]
              /\ UNCHANGED initialMemory
         ELSE \E out \in BasicFallback(legalMoves, initialMemory) :
                ServiceEnds(out, service.oracleCalls)
  /\ UNCHANGED <<memoryStore, appVars, resetRun, lastStrategy, validation, extraction, probe, engineVars>>

ServiceBasicReturns == \E response \in BasicResponses : ServiceBasicStep(response)

\* the caller (App.tsx 313-332): a returned move is made on the board, a
\* raised error is caught and logged
ServiceCommit ==
  /\ service.stage \in {"returned", "raised"}
  /\ chess' = IF service.stage = "returned" THEN makeMove(chess, service.move).chess
              ELSE chess
  /\ service' = [service EXCEPT !.stage = "idle"]
  /\ UNCHANGED <<memVars, gameState, gameMode, whitePlayer, blackPlayer, modelsLoaded, isGameRunning, isThinking,
                 currentMoveAnalysis, timer, calls, resets, turns, lastCommit,
                 resetRun, lastStrategy, validation, extraction, probe, engineVars>>

NextService ==
  \/ \E pipeline \in Pipelines : ServiceCall(pipeline)
  \/ ServicePlannerReturns
  \/ ServiceAdvancedReturns
  \/ ServiceBasicReturns
  \/ ServiceCommit

SpecService == Init /\ [][NextService]_vars

----------------------------------------------------------------------------
(* StockfishService: its methods, as operators on the record
   [sf, tm, posted, en, evals] of the service fields, the timers, the posted
   commands, the worker and the requests *)

Cmd(c, fen) == [cmd |-> c, fen |-> fen]

\* this.worker?.postMessage(...) for each command
Post(s, cmds) == IF s.sf.worker THEN [s EXCEPT !.posted = @ \o cmds] ELSE s

\* variant of the threshold that forwards every info line
MinReportedDepthAny == 3 - 3

\* the smallest depth parseEvaluation forwards (175)
MinReportedDepth == 3

\* getSimpleEvaluation (186-208): depth 1, or depth 0 from its catch block
\* when fen is not a string
getSimpleEvaluation(fen) ==
  [source |-> "synthetic", depth |-> IF fen \in Requests THEN 1 ELSE 0, of |-> fen]

\* the callback of request r is invoked with a result
Delivered(s, r, result) == [s EXCEPT !.evals[r].results = @ \cup {result}]

\* variant that computes the synthetic result but never hands it over
SyntheticDropped(s, r) == [s EXCEPT !.evals[r].stage = "synthetic"]

\* 217-218 and 236-237: setTimeout(() => callback(simpleResult), 100)
Synthetic(s, r) ==
  [s EXCEPT !.evals[r].stage = "synthetic", !.tm.synthetic = @ \cup {r}]

\* variant that sets the new position without stopping the running search
SendToEngineNoStop(s, r) ==
  LET s1 == [s EXCEPT !.sf.currentCallback = r]
      s2 == Post(s1, << Cmd("position", r), Cmd("go", NoRequest) >>)
      s3 == [s2 EXCEPT !.tm.evaluation = @ \ {s2.sf.evaluationTimeout}]
  IN  [s3 EXCEPT !.sf.evaluationTimeout = r,
                 !.tm.evaluation = @ \cup {r},
                 !.evals[r].stage = "engine"]

\* 221-233: the request is sent to the engine and the timeout is armed
SendToEngine(s, r) ==
  LET s1 == [s EXCEPT !.sf.currentCallback = r]
      s2 == Post(s1, << Cmd("stop", NoRequest), Cmd("position", r), Cmd("go", NoRequest) >>)
      s3 == [s2 EXCEPT !.tm.evaluation = @ \ {s2.sf.evaluationTimeout}]
  IN  [s3 EXCEPT !.sf.evaluationTimeout = r,
                 !.tm.evaluation = @ \cup {r},
                 !.evals[r].stage = "engine"]

\* evaluatePosition after `await this.initializeWorker()` (214-238), given how
\* the awaited promise settled
Continue(s, r, settled) ==
  IF settled = "rejected" THEN Synthetic(s, r)
  ELSE IF ~s.sf.isReady \/ ~s.sf.worker THEN Synthetic(s, r)
  ELSE SendToEngine(s, r)

\* the requests awaiting the initialisation continue in call order, from r on
RECURSIVE ContinueWaiting(_, _, _)
ContinueWaiting(s, r, settled) ==
  IF r > MaxEvaluations THEN s
  ELSE ContinueWaiting(IF s.evals[r].stage = "waiting" THEN Continue(s, r, settled) ELSE s,
                       r + 1, settled)

\* resolve() / reject() of the initialisation promise; settling twice has no
\* effect
Settle(s, settled) ==
  IF s.sf.initializationPromise = "pending"
  THEN ContinueWaiting([s EXCEPT !.sf.initializationPromise = settled], 1, settled)
  ELSE s

\* cleanup (115-125): the worker is terminated and forgotten
cleanup(s) ==
  LET s1 == IF s.sf.worker
            THEN [s EXCEPT !.en.alive = FALSE, !.en.outbox = << >>,
                           !.en.search = NoRequest, !.sf.worker = FALSE]
            ELSE s
  IN  [s1 EXCEPT !.sf.isReady = FALSE]

\* parseInt(parts[i + 1]) || 0 for the token after `depth` (161)
ParseDepth(token) ==
  IF token = "1" THEN 1
  ELSE IF token = "3" THEN 3
  ELSE IF token = "8" THEN 8
  ELSE 0

\* parseEvaluation (150-183) for an info line of the search of position msg.of
parseEvaluation(s, msg) ==
  LET depth == ParseDepth(msg.depth)
  IN  IF depth >= MinReportedDepth /\ s.sf.currentCallback # NoRequest
      THEN Delivered(s, s.sf.currentCallback,
                     [source |-> "engine", depth |-> depth, of |-> msg.of])
      ELSE s

\* handleMessage (127-143)
handleMessage(s, msg) ==
  IF msg.type = "uciok" THEN s
  ELSE IF msg.type = "info" THEN parseEvaluation(s, msg)
  ELSE IF s.sf.evaluationTimeout # NoRequest
  THEN [s EXCEPT !.tm.evaluation = @ \ {s.sf.evaluationTimeout},
                 !.sf.evaluationTimeout = NoRequest]
  ELSE s

\* worker.onmessage (82-95)
OnMessage(s, msg) ==
  IF msg.type = "uciok"
  THEN LET s1 == [s EXCEPT !.tm.init = FALSE, !.sf.isReady = TRUE]
           s2 == Post(s1, << Cmd("setoption", NoRequest), Cmd("setoption", NoRequest),
                             Cmd("ucinewgame", NoRequest) >>)
       IN  Settle(handleMessage(s2, msg), "resolved")
  ELSE handleMessage(s, msg)

\* the initTimeout callback (76-81)
OnInitTimeout(s) ==
  Settle(cleanup([s EXCEPT !.tm.init = FALSE, !.sf.initializationFailed = TRUE]),
         "rejected")

\* worker.onerror (96-102)
OnError(s) ==
  Settle(cleanup([s EXCEPT !.tm.init = FALSE, !.sf.initializationFailed = TRUE]),
         "rejected")

\* the evaluation timeout callback (229-233)
OnEvaluationTimeout(s, r) ==
  LET s1 == Post([s EXCEPT !.tm.evaluation = @ \ {r}], << Cmd("stop", NoRequest) >>)
  IN  [s1 EXCEPT !.sf.currentCallback = NoRequest]

\* stop() (244-254); every request made so far counts as stopped
stop(s) ==
  LET s1 == IF s.sf.worker
            THEN [Post(s, << Cmd("stop", NoRequest) >>) EXCEPT
                    !.sf.currentCallback = NoRequest]
            ELSE s
      s2 == IF s1.sf.evaluationTimeout # NoRequest
            THEN [s1 EXCEPT !.tm.evaluation = @ \ {s1.sf.evaluationTimeout},
                            !.sf.evaluationTimeout = NoRequest]
            ELSE s1
  IN  [s2 EXCEPT !.evals = [r \in Requests |->
                              IF s2.evals[r].stage = "unused" THEN s2.evals[r]
                              ELSE [s2.evals[r] EXCEPT !.stopped = TRUE]]]

\* destroy() (260-266): stop, cleanup, and the memo of the initialisation is
\* dropped.  A pending initTimeout is not cleared: it stays armed, and the
\* calls awaiting the dropped promise stay suspended until it fires.
destroy(s) ==
  LET s1 == cleanup(stop(s))
      waiting == {r \in Requests : s1.evals[r].stage = "waiting"}
      s2 == IF s1.tm.init
            THEN [s1 EXCEPT
                    !.tm.init = FALSE,
                    !.tm.staleInit = Append(@, waiting),
                    !.evals = [r \in Requests |->
                                 IF r \in waiting
                                 THEN [s1.evals[r] EXCEPT !.stage = "orphaned"]
                                 ELSE s1.evals[r]]]
            ELSE s1
  IN  [s2 EXCEPT !.sf.initializationPromise = "null",
                 !.sf.initializationFailed = FALSE,
                 !.sf.created = 0,
                 !.sf.destroys = @ + 1]

\* the calls awaiting a promise that a stale initTimeout rejects continue in
\* call order, from r on
RECURSIVE ContinueOrphans(_, _, _)
ContinueOrphans(s, r, waiting) ==
  IF r > MaxEvaluations THEN s
  ELSE ContinueOrphans(IF r \in waiting THEN Continue(s, r, "rejected") ELSE s,
                       r + 1, waiting)

\* the initTimeout callback (76-81) of an initialisation that destroy() has
\* dropped: it marks the service failed, cleans up whatever worker there is
\* now, and rejects the promise of its own initialisation
OnStaleInitTimeout(s) ==
  LET s1 == cleanup([s EXCEPT !.tm.staleInit = Tail(@), !.sf.initializationFailed = TRUE])
  IN  ContinueOrphans(s1, 1, Head(s.tm.staleInit))

\* variant of initializeWorker that forgets a settled initialisation
initializeWorkerAgain(s, constructed) ==
  IF s.sf.initializationPromise = "pending"
  THEN [state |-> s, promise |-> "pending"]
  ELSE IF ~constructed
  THEN [state |-> [s EXCEPT !.sf.isReady = FALSE, !.sf.initializationPromise = "resolved"],
        promise |-> "resolved"]
  ELSE LET s1 == [s EXCEPT !.sf.worker = TRUE,
                           !.sf.created = @ + 1,
                           !.sf.initializationPromise = "pending",
                           !.tm.init = TRUE,
                           !.en = [NoEngine EXCEPT !.alive = TRUE, !.read = Len(s.posted)]]
       IN  [state |-> Post(s1, << Cmd("uci", NoRequest) >>), promise |-> "pending"]

\* initializeWorker (54-113); `constructed` says whether new Worker(...)
\* succeeds.  The result is the state and how the returned promise stands.
initializeWorker(s, constructed) ==
  IF s.sf.initializationPromise # "null"
  THEN [state |-> s, promise |-> s.sf.initializationPromise]
  ELSE IF s.sf.initializationFailed
  THEN [state |-> s, promise |-> "rejected"]
  ELSE IF ~constructed
  THEN [state |-> [s EXCEPT !.sf.isReady = FALSE, !.sf.initializationPromise = "resolved"],
        promise |-> "resolved"]
  ELSE LET s1 == [s EXCEPT !.sf.worker = TRUE,
                           !.sf.created = @ + 1,
                           !.sf.initializationPromise = "pending",
                           !.tm.init = TRUE,
                           !.en = [NoEngine EXCEPT !.alive = TRUE, !.read = Len(s.posted)]]
       IN  [state |-> Post(s1, << Cmd("uci", NoRequest) >>), promise |-> "pending"]

\* evaluatePosition(fen, callback) for request r (210-239), up to the point
\* where it returns or waits for the initialisation
evaluatePosition(s, r, constructed) ==
  LET init == initializeWorker(s, constructed)
  IN  IF init.promise = "pending"
      THEN [init.state EXCEPT !.evals[r].stage = "waiting"]
      ELSE Continue(init.state, r, init.promise)

----------------------------------------------------------------------------
(* StockfishService driven by EvaluationBar, the worker and the timers *)

\* the token after `depth` in the info lines the worker sends
InfoDepths == {"1", "3", "?"}

Sys == [sf |-> stockfish, tm |-> timers, posted |-> posted, en |-> engine, evals |-> evals]

SetSys(s) ==
  /\ stockfish' = s.sf
  /\ timers' = s.tm
  /\ posted' = s.posted
  /\ engine' = s.en
  /\ evals' = s.evals

nonEngineVars ==
  <<memVars, appVars, resetRun, lastStrategy, validation, extraction, service, probe>>

\* the worker sends a message
Emitted(s, msg) == [s EXCEPT !.en.outbox = Append(@, msg)]

\* EvaluationBar's effect (20-58) runs, on mount or when the position
\* changes: the previous run's cleanup calls stop(); then the effect returns
\* early when the game is over, or calls evaluatePosition
BarEffect(gameOver, constructed) ==
  /\ gameOver => bar
  /\ LET s1 == IF bar THEN stop(Sys) ELSE Sys
     IN  IF gameOver
         THEN SetSys(s1) /\ bar' = FALSE
         ELSE \E r \in Requests :
                /\ evals[r].stage = "unused"
                /\ \A q \in Requests : q < r => evals[q].stage # "unused"
                /\ SetSys(evaluatePosition(s1, r, constructed))
                /\ bar' = TRUE
  /\ UNCHANGED nonEngineVars

\* the worker takes the next command posted to it
WorkerConsumes ==
  /\ engine.alive
  /\ engine.read < Len(posted)
  /\ Len(engine.outbox) < MaxOutbox
  /\ LET command == posted[engine.read + 1]
         s1 == [Sys EXCEPT !.en.read = @ + 1]
     IN  SetSys(
           IF command.cmd = "uci"
           THEN Emitted(s1, [type |-> "uciok", depth |-> "", of |-> NoRequest])
           ELSE IF command.cmd = "position"
           THEN [s1 EXCEPT !.en.position = command.fen]
           ELSE IF command.cmd = "go"
           THEN [s1 EXCEPT !.en.search = s1.en.position]
           ELSE IF command.cmd = "stop" /\ s1.en.search # NoRequest
           THEN [Emitted(s1, [type |-> "bestmove", depth |-> "", of |-> s1.en.search])
                   EXCEPT !.en.search = NoRequest]
           ELSE s1)
  /\ UNCHANGED <<nonEngineVars, bar>>

\* the running search reports an info line
WorkerInfo(depth) ==
  /\ engine.alive
  /\ engine.search # NoRequest
  /\ Len(engine.outbox) < MaxOutbox
  /\ SetSys(Emitted(Sys, [type |-> "info", depth |-> depth, of |-> engine.search]))
  /\ UNCHANGED <<nonEngineVars, bar>>

\* the running search ends
WorkerBestmove ==
  /\ engine.alive
  /\ engine.search # NoRequest
  /\ Len(engine.outbox) < MaxOutbox
  /\ SetSys([Emitted(Sys, [type |-> "bestmove", depth |-> "", of |-> engine.search])
               EXCEPT !.en.search = NoRequest])
  /\ UNCHANGED <<nonEngineVars, bar>>

\* onmessage runs for the oldest message of the worker
Receive ==
  /\ engine.alive
  /\ engine.outbox # << >>
  /\ SetSys(OnMessage([Sys EXCEPT !.en.outbox = Tail(@)], Head(engine.outbox)))
  /\ UNCHANGED <<nonEngineVars, bar>>

\* the 10 s initialisation timeout fires; timeouts of equal delay fire in the
\* order they were set
InitTimeout ==
  /\ timers.init
  /\ timers.staleInit = << >>
  /\ SetSys(OnInitTimeout(Sys))
  /\ UNCHANGED <<nonEngineVars, bar>>

\* the worker reports an error
WorkerError ==
  /\ engine.alive
  /\ SetSys(OnError(Sys))
  /\ UNCHANGED <<nonEngineVars, bar>>

\* the 3 s evaluation timeout of request r fires
EvaluationTimeout(r) ==
  /\ r \in timers.evaluation
  /\ SetSys(OnEvaluationTimeout(Sys, r))
  /\ UNCHANGED <<nonEngineVars, bar>>

\* the 100 ms timeout of request r fires: its callback gets the synthetic result
SyntheticFires(r) ==
  /\ r \in timers.synthetic
  /\ SetSys(Delivered([Sys EXCEPT !.tm.synthetic = @ \ {r}], r, getSimpleEvaluation(r)))
  /\ UNCHANGED <<nonEngineVars, bar>>

\* the App component unmounts (App.tsx 357-362): EvaluationBar's cleanup has
\* run, and the effect's cleanup calls stockfishService.destroy()
Destroy ==
  /\ stockfish.destroys < MaxDestroys
  /\ SetSys(destroy(Sys))
  /\ bar' = FALSE
  /\ UNCHANGED nonEngineVars

\* an initTimeout that destroy() left armed fires
StaleInitTimeout ==
  /\ timers.staleInit # << >>
  /\ SetSys(OnStaleInitTimeout(Sys))
  /\ UNCHANGED <<nonEngineVars, bar>>

EvaluationTimeouts == \E r \in Requests : EvaluationTimeout(r)

SyntheticTimeouts == \E r \in Requests : SyntheticFires(r)

NextEngine ==
  \/ \E gameOver \in BOOLEAN, constructed \in BOOLEAN : BarEffect(gameOver, constructed)
  \/ WorkerConsumes
  \/ \E depth \in InfoDepths : WorkerInfo(depth)
  \/ WorkerBestmove
  \/ Receive
  \/ InitTimeout
  \/ WorkerError
  \/ EvaluationTimeouts
  \/ SyntheticTimeouts

SpecEngine == Init /\ [][NextEngine]_vars

\* the service with its whole life cycle: destroy() included
NextLifecycle ==
  \/ NextEngine
  \/ Destroy
  \/ StaleInitTimeout

SpecLifecycle == Init /\ [][NextLifecycle]_vars

\* every armed timeout fires unless cleared, every message of the worker is
\* handled, and the worker takes its commands and ends its searches; whether
\* a search reports info lines is left open
SpecEngineLive ==
  /\ Init
  /\ [][NextEngine]_vars
  /\ WF_vars(InitTimeout)
  /\ WF_vars(EvaluationTimeouts)
  /\ WF_vars(SyntheticTimeouts)
  /\ WF_vars(Receive)
  /\ WF_vars(WorkerConsumes)
  /\ WF_vars(WorkerBestmove)

----------------------------------------------------------------------------
(* makeMove harness: makeMove and resetGame called on the game, with legal, *)
(* illegal and malformed candidates                                         *)

\* candidates handed to makeMove: the move oracle's, and every move of the
\* game with a promotion piece it does not have
MakeMoveCandidates ==
  Candidates \cup { [from |-> m.from, to |-> m.to, promotion |-> "q"] : m \in AllMoves }

\* chessService.makeMove(candidate)
MakeMoveCall(candidate) ==
  LET made == makeMove(chess, candidate)
  IN  /\ chess' = made.chess
      /\ probe' = [op |-> "makeMove", candidate |-> candidate, before |-> chess,
                   result |-> made.result, raised |-> made.raised]
      /\ UNCHANGED <<memVars, gameState, gameMode, whitePlayer, blackPlayer, modelsLoaded, isGameRunning, isThinking,
                     currentMoveAnalysis, timer, calls, resets, turns, lastCommit,
                     resetRun, lastStrategy, validation, extraction, service, engineVars>>

\* chessService.resetGame()
ResetGameCall ==
  /\ chess' = InitialChess
  /\ probe' = [op |-> "resetGame", candidate |-> NoCandidate, before |-> chess,
               result |-> << >>, raised |-> FALSE]
  /\ UNCHANGED <<memVars, gameState, gameMode, whitePlayer, blackPlayer, modelsLoaded, isGameRunning, isThinking,
                 currentMoveAnalysis, timer, calls, resets, turns, lastCommit,
                 resetRun, lastStrategy, validation, extraction, service, engineVars>>

NextMakeMove ==
  \/ \E candidate \in MakeMoveCandidates : MakeMoveCall(candidate)
  \/ ResetGameCall

SpecMakeMove == Init /\ [][NextMakeMove]_vars

----------------------------------------------------------------------------
(* Planner harness: a game in which, at every ply, the side to move runs    *)
(* updatePlayerStrategy (aiService.ts 229-263), whose planStrategy call     *)
(* (strategyService.ts 134-190) first asks the Memory Store whether the     *)
(* goals are stale.  probe counts the plies and remembers, per colour, the  *)
(* ply at which each goal list was last written.                            *)

\* most plies played in the planner harness
MaxPly == 14

\* the colour to move after `ply` half-moves
MoverAt(ply) == IF ply % 2 = 0 THEN "white" ELSE "black"

\* goal lists the planner returns: none, fewer than the cap, more than the cap
PlannerShortGoals == {<< >>, LongGoals}

PlannerLongGoals == {<< >>, <<"g1", "g2">>}

\* results of planStrategy in the planner harness
PlannerStrategies ==
  { [opening |-> UndefinedText, shortTermGoals |-> s, longTermGoals |-> l,
     reflection |-> EmptyString] : s \in PlannerShortGoals, l \in PlannerLongGoals }

InitPlanner ==
  /\ InitProgram
  /\ resetRun = 0
  /\ lastStrategy = NoStrategy
  /\ validation = NoValidation
  /\ extraction = NoExtraction
  /\ service = NoService
  /\ probe = [op |-> "start", ply |-> 0, color |-> "white", at |-> 0,
              shortSince |-> 0, longSince |-> 0,
              shortStale |-> FALSE, longStale |-> FALSE,
              strategy |-> PlannerFailed,
              before |-> [store |-> InitialStore, shared |-> InitialShared],
              shortPly |-> [c \in Colors |-> 0],
              longPly |-> [c \in Colors |-> 0]]
  /\ InitEngine

\* updatePlayerStrategy(gameState, color) for the side to move, with the
\* planner returning `strategy`; then the move is played
PlannerTurn(strategy) ==
  LET ply   == probe.ply
      color == MoverAt(ply)
      mem   == StrategyApplied([store |-> memoryStore, shared |-> initialMemory],
                               color, ply, strategy)
  IN  /\ ply < MaxPly
      /\ memoryStore' = mem.store
      /\ initialMemory' = mem.shared
      /\ probe' =
           [op |-> "plan", ply |-> ply + 1, color |-> color, at |-> ply,
            shortSince |-> probe.shortPly[color], longSince |-> probe.longPly[color],
            shortStale |-> shouldUpdateShortTermGoals(color, CeilHalf(ply)),
            longStale |-> shouldUpdateLongTermGoals(color, CeilHalf(ply)),
            strategy |-> strategy,
            before |-> [store |-> memoryStore, shared |-> initialMemory],
            shortPly |-> IF Len(strategy.shortTermGoals) > 0
                         THEN [probe.shortPly EXCEPT ![color] = ply]
                         ELSE probe.shortPly,
            longPly |-> IF Len(strategy.longTermGoals) > 0
                        THEN [probe.longPly EXCEPT ![color] = ply]
                        ELSE probe.longPly]
      /\ UNCHANGED <<appVars, resetRun, lastStrategy, validation, extraction, service,
                     engineVars>>

NextPlanner == \E strategy \in PlannerStrategies : PlannerTurn(strategy)

SpecPlanner == InitPlanner /\ [][NextPlanner]_vars

----------------------------------------------------------------------------
(* Reflection harness: addReflection called for either colour; probe keeps  *)
(* the reflections handed in for each colour, in call order                 *)

\* most addReflection calls in one behaviour
MaxAdded == 7

\* reflections handed to addReflection in the reflection harness
ReflectionTexts == {"r1", "r2"}

InitReflections ==
  /\ InitProgram
  /\ resetRun = 0
  /\ lastStrategy = NoStrategy
  /\ validation = NoValidation
  /\ extraction = NoExtraction
  /\ service = NoService
  /\ probe = [op |-> "start", color |-> "white", added |-> [c \in Colors |-> << >>]]
  /\ InitEngine

\* memoryService.addReflection(color, reflection)
AddReflectionCall(color, reflection) ==
  /\ Len(probe.added["white"]) + Len(probe.added["black"]) < MaxAdded
  /\ initialMemory' = ReflectionAdded(initialMemory, color, reflection)
  /\ probe' = [op |-> "addReflection", color |-> color,
               added |-> [probe.added EXCEPT ![color] = Append(@, reflection)]]
  /\ UNCHANGED <<memoryStore, appVars, resetRun, lastStrategy, validation, extraction,
                 service, engineVars>>

NextReflections ==
  \E color \in Colors, reflection \in ReflectionTexts : AddReflectionCall(color, reflection)

SpecReflections == InitReflections /\ [][NextReflections]_vars

----------------------------------------------------------------------------
(* Basic extraction harness: extractMoveFromResponse called on replies      *)
(* whose last move token is given, at the positions of a game in progress   *)

\* extractMoveFromResponse(response, gameState) on a reply ending in `token`
ExtractMoveCall(token) ==
  /\ probe' = [op |-> "extractMove", candidate |-> NoCandidate, token |-> token,
               before |-> chess,
               result |-> ExtractMove(token, getAllLegalMoves(chess)),
               raised |-> FALSE]
  /\ UNCHANGED <<memVars, appVars, resetRun, lastStrategy, validation, extraction,
                 service, engineVars>>

NextBasicExtraction ==
  \/ \E token \in Tokens : ExtractMoveCall(token)
  \/ \E candidate \in MakeMoveCandidates : MakeMoveCall(candidate)

SpecBasicExtraction == Init /\ [][NextBasicExtraction]_vars

----------------------------------------------------------------------------
(* Score harness: parseEvaluation (stockfishService.ts 150-183) applied to  *)
(* one info line of the search of a position whose side to move is known    *)

\* largest absolute score an info line of the harness reports
MaxScore == 2

\* the token after `score cp` / `score mate`: << v >> for the numeral of the
\* integer v, << >> for a token that is no number
ScoreTokens == { << v >> : v \in -MaxScore..MaxScore } \cup { << >> }

\* parseInt(token) || 0
ParseScore(token) == IF token # << >> THEN token[1] ELSE 0

\* the info lines of the harness: depth token, score kind, score token
InfoLines ==
  [depth : {"1", "3", "8"}, score : {"cp", "mate", "none"}, value : ScoreTokens]

\* the EvaluationResult parseEvaluation builds from an info line (152-172);
\* mate is Undefined when the line reports no mate
EvaluationOf(line) ==
  LET mate == IF line.score = "mate" THEN ParseScore(line.value) ELSE Undefined
  IN  [centipawns |-> IF line.score = "cp" THEN ParseScore(line.value)
                      ELSE IF line.score = "mate"
                      THEN (IF mate > 0 THEN 1000 ELSE -1000)
                      ELSE 0,
       mate |-> mate,
       depth |-> ParseDepth(line.depth)]

InitScore ==
  /\ InitProgram
  /\ resetRun = 0
  /\ lastStrategy = NoStrategy
  /\ validation = NoValidation
  /\ extraction = NoExtraction
  /\ service = NoService
  /\ \E turn \in {"w", "b"}, line \in InfoLines :
       probe = [op |-> "line", turn |-> turn, line |-> line, delivered |-> << >>]
  /\ InitEngine

\* onmessage hands the info line to parseEvaluation while a callback is
\* registered: the result is delivered when its depth is at least 3 (175)
ParseEvaluationCall ==
  /\ probe.op = "line"
  /\ probe' = [probe EXCEPT
                 !.op = "parseEvaluation",
                 !.delivered = IF EvaluationOf(probe.line).depth >= MinReportedDepth
                               THEN << EvaluationOf(probe.line) >>
                               ELSE << >>]
  /\ UNCHANGED <<memVars, appVars, resetRun, lastStrategy, validation, extraction,
                 service, engineVars>>

NextScore == ParseEvaluationCall

SpecScore == InitScore /\ [][NextScore]_vars

(* Human play: the vs AI button, the colour choice and the board's events    *)
(* (App.tsx 242-274, Chessboard.tsx 64-114, ModernControlPanel.tsx 76-119)   *)

\* the Complex and vs AI buttons of the control panel; the modes they set are
\* both served by the advanced pipeline
HumanModeButtons == {"complex", "human-vs-ai"}

\* handlePieceDrop (75-114) up to the promotion test: does the drop of a piece
\* of colour pieceColor go on?  The props are those of the current render.
handlePieceDrop(mode, gs, white, black, pieceColor) ==
  /\ isHumanTurn(mode, gs, white, black)
  /\ pieceColor = getHumanColor(mode, white)
  /\ TurnColor(gs.turn) = getHumanColor(mode, white)

\* handleHumanMove (255-274): the board, the snapshot, and whether the move
\* was accepted
handleHumanMove(ch, gs, mode, white, black, move) ==
  IF ~isHumanTurn(mode, gs, white, black)
  THEN [chess |-> ch, gameState |-> gs, accepted |-> FALSE]
  ELSE LET made == makeMove(ch, move)
       IN  IF made.result # << >>
           THEN [chess |-> made.chess, gameState |-> getGameState(made.chess),
                 accepted |-> TRUE]
           ELSE [chess |-> made.chess, gameState |-> gs, accepted |-> FALSE]

\* the moves a drop hands to onHumanMove (110): two squares, no promotion
DropCandidates ==
  {c \in MakeMoveCandidates : Truthy(c.from) /\ c.promotion = Undefined}

\* the moves the promotion dialog hands to onHumanMove (70)
PromotionCandidates == {c \in MakeMoveCandidates : Truthy(c.promotion)}

\* handleHumanColorChange (100-119); the radio group is rendered in the vs AI
\* mode and disabled while the game runs
HumanColorChange(humanColor) ==
  /\ ~isGameRunning
  /\ gameMode = "human-vs-ai"
  /\ whitePlayer' = Player("white", IF humanColor = "white" THEN "human" ELSE "ai")
  /\ blackPlayer' = Player("black", IF humanColor = "white" THEN "ai" ELSE "human")
  /\ modelsLoaded' = TRUE
  /\ UNCHANGED <<memVars, harnessVars, chess, gameState, gameMode, isGameRunning,
                 isThinking, currentMoveAnalysis, timer, calls, resets, turns, lastCommit>>

\* onHumanMove(move) reaches handleHumanMove; an accepted move sets gameState,
\* so the AI loop effect runs again
HumanMove(move) ==
  LET out == handleHumanMove(chess, gameState, gameMode, whitePlayer, blackPlayer, move)
  IN  /\ chess' = out.chess
      /\ gameState' = out.gameState
      /\ timer' = IF out.accepted THEN EffectArmsTimer(isGameRunning, out.gameState)
                  ELSE timer
      /\ UNCHANGED <<memVars, harnessVars, gameMode, whitePlayer, blackPlayer,
                     modelsLoaded, isGameRunning, isThinking, currentMoveAnalysis,
                     calls, resets, turns, lastCommit>>

\* a piece of either colour is dropped on the board
PieceDrop ==
  \E pieceColor \in Colors, move \in DropCandidates :
    /\ handlePieceDrop(gameMode, gameState, whitePlayer, blackPlayer, pieceColor)
    /\ HumanMove(move)

\* a piece is picked in the promotion dialog, which stays open until then
PromotionSelect == \E move \in PromotionCandidates : HumanMove(move)

\* the AI opponent's replies in the games with a human: the planner fails, and
\* the move oracle throws or names a move with some analysis
OpponentResponses ==
  {r \in AdvancedResponses :
     \/ r.kind = "throw"
     \/ r.content = "analysis" /\ r.move # << >> /\ r.move[1].promotion = Undefined}

OpponentPlans == \E slot \in Slots : PlannerStep(slot, PlannerFailed)

OpponentMoves ==
  \E slot \in Slots, response \in OpponentResponses : AdvancedOracleStep(slot, response)

NextHuman ==
  \/ ModelsLoaded
  \/ \E mode \in HumanModeButtons : GameModeChangeTo(mode)
  \/ \E humanColor \in Colors : HumanColorChange(humanColor)
  \/ StartGame
  \/ ResetGame
  \/ TimerFires
  \/ OpponentPlans
  \/ OpponentMoves
  \/ PieceDrop
  \/ PromotionSelect

SpecHuman == Init /\ [][NextHuman]_vars

-----------------------------------------------------------------------------

----------------------------------------------------------------------------
(* Properties *)

\* the makeAIMove invocations suspended at an await
InFlight == {slot \in Slots : calls[slot].stage # "idle"}

\* a step in which a makeAIMove invocation ends
CallEnds == \E slot \in Slots : calls[slot].stage # "idle" /\ calls'[slot].stage = "idle"

\* a step that appends one move, legal in the position it is applied to
LegalMoveAppended ==
  /\ Len(chess'.history) = Len(chess.history) + 1
  /\ SubSeq(chess'.history, 1, Len(chess.history)) = chess.history
  /\ \E i \in DOMAIN MoveTable(chess.pos) :
       /\ chess'.history[Len(chess'.history)] = MoveTable(chess.pos)[i].m
       /\ chess'.pos = MoveTable(chess.pos)[i].next

\* C1: every move committed to the game by the AI loop, an accepted candidate
\* or a random fallback in either mode, is a member of the legal-move list of
\* the position it is applied to: whenever the game's history changes other
\* than by being emptied, exactly one move was appended and it is legal there.
C1_CommittedMovesLegal ==
  [][(chess'.history # chess.history /\ chess'.history # << >>) => LegalMoveAppended]_vars

\* a fallback move of the basic mode was committed as the second ply or later
C1_Witness ==
  /\ lastCommit.via = "fallback"
  /\ lastCommit.pipeline = "basic"
  /\ Len(chess.history) >= 2

\* C2: with a move oracle that always fails or returns null/invalid candidates
\* and no Reset, every AI turn that ends commits exactly one legal half-move,
\* the game changes in no other step, and a running game always reaches
\* gameOver.
C2_FallbackAdvances ==
  /\ [][CallEnds => LegalMoveAppended]_vars
  /\ [][~CallEnds => chess' = chess]_vars
  /\ (isGameRunning ~> gameState.gameOver)

\* the game ended in checkmate on a fallback move of the advanced mode
C2_Witness ==
  /\ gameState.checkmate
  /\ lastCommit.via = "fallback"
  /\ lastCommit.pipeline = "advanced"

\* C3: a result that arrives after Reset is discarded: after a Reset and
\* before a new Start no step changes the game or the Memory Store.
C3_LateResultDiscarded ==
  [][(resets >= 1 /\ resets' = resets /\ ~isGameRunning /\ ~isGameRunning') =>
       (chess' = chess /\ initialMemory' = initialMemory /\ memoryStore' = memoryStore)]_vars

\* C4: at most one AI move-generation call is in flight at any time.
C4_OneCallInFlight == Cardinality(InFlight) <= 1

\* C5: after any sequence of Memory Store operations each colour has at most
\* 3 short-term goals, at most 3 long-term goals and at most 5 reflections.
C5_MemoryBounds ==
  \A c \in Colors :
    /\ Len(getMemory(c).shortTermGoals) <= 3
    /\ Len(getMemory(c).longTermGoals) <= 3
    /\ Len(getMemory(c).reflection) <= 5

\* both caps are reached
C5_Witness ==
  /\ Len(getMemory("white").reflection) = 5
  /\ Len(getMemory("black").shortTermGoals) = 3
  /\ Len(getMemory("white").longTermGoals) = 3

\* C6: after resetMemory() both colours' memory equals the initial empty state.
C6_ResetYieldsEmpty ==
  resetRun >= 1 => \A c \in Colors : getMemory(c) = EmptyMemory

\* C7: resetMemory() is idempotent: a resetMemory() that directly follows a
\* resetMemory() leaves both colours' memory as it is.
C7_ResetIdempotent ==
  [][(resetRun >= 1 /\ ResetMemory) =>
       \A c \in Colors :
         MemoryOf(memoryStore', initialMemory', c) = MemoryOf(memoryStore, initialMemory, c)]_vars

\* resetMemory() ran twice in a row on a memory that held a recorded move
C7_Witness ==
  /\ resetRun = 2
  /\ initialMemory.moveHistory # << >>

\* C8: updateMoveHistory(c, m) appends m to c's moveHistory, increments c's
\* counter of the moved piece, and leaves the other colour's moveHistory and
\* pieceActivity unchanged.
C8_OwnMovesOnly ==
  [][\A c \in Colors, m \in HarnessMoves :
       UpdateMoveHistory(c, m) =>
         LET own   == MemoryOf(memoryStore, initialMemory, c)
             own2  == MemoryOf(memoryStore', initialMemory', c)
             oth   == MemoryOf(memoryStore, initialMemory, OtherColor(c))
             oth2  == MemoryOf(memoryStore', initialMemory', OtherColor(c))
         IN  /\ own2.moveHistory = Append(own.moveHistory, m)
             /\ ActivityOf(own2.pieceActivity, PieceId(m))
                  = ActivityOf(own.pieceActivity, PieceId(m)) + 1
             /\ oth2.moveHistory = oth.moveHistory
             /\ oth2.pieceActivity = oth.pieceActivity]_vars

\* C9: in updatePlayerStrategy, when the colour's stored opening is set and the
\* ply count is >= 10, the stored opening is not changed; when the ply count
\* is < 10 the planner's opening (as setOpening stores it) overwrites it.
C9_OpeningLock ==
  [][\A c \in Colors, n \in PlyCounts, s \in HarnessStrategies :
       UpdatePlayerStrategy(c, n, s) =>
         /\ (TruthyText(memoryStore[c].opening) /\ n >= 10)
              => memoryStore'[c].opening = memoryStore[c].opening
         /\ (TruthyText(s.opening) /\ n < 10)
              => memoryStore'[c].opening = Trim(SplitFirst(s.opening))]_vars

\* a planner result with a different opening met a stored opening at ply >= 10
C9_Witness == lastStrategy.case = "locked"

\* the promotions of a candidate and a legal move agree, where `absent` are
\* the candidate promotions that count as no promotion
PromotionsAgree(move, legalMove, absent) ==
  IF legalMove.promotion # Undefined
  THEN move.promotion = legalMove.promotion
  ELSE move.promotion \in absent

\* candidate and legal move agree on origin, destination and promotion
MovesAgree(move, legalMove, absent) ==
  /\ move.from = legalMove.from
  /\ move.to = legalMove.to
  /\ PromotionsAgree(move, legalMove, absent)

\* C10 as stated: both validators match a candidate with a legal move iff
\* origin and destination are equal and the promotions agree, a legal move
\* without promotion matching only a candidate whose promotion is absent or
\* null; and the two validators accept the same pairs.
C10_ValidatorsAsStated ==
  validation.done =>
    /\ validation.advanced = MovesAgree(validation.move, validation.legalMove,
                                        {Undefined, Null})
    /\ validation.basic = MovesAgree(validation.move, validation.legalMove,
                                     {Undefined, Null})
    /\ validation.advanced = validation.basic

\* C10 amended: as above, but a legal move without promotion matches a
\* candidate whose promotion is absent, null or the empty string.
C10_Validators ==
  validation.done =>
    /\ validation.advanced = MovesAgree(validation.move, validation.legalMove,
                                        {Undefined, Null, EmptyString})
    /\ validation.basic = MovesAgree(validation.move, validation.legalMove,
                                     {Undefined, Null, EmptyString})
    /\ validation.advanced = validation.basic

\* both validators accepted a candidate with promotion "" for a legal move
\* without promotion
C10_Witness ==
  /\ validation.done
  /\ validation.move.promotion = EmptyString
  /\ validation.legalMove.promotion = Undefined
  /\ validation.advanced
  /\ validation.basic


\* C11: for the same intended move, the structured function-call path and the
\* free-text JSON path, fed the same model output, produce an identical
\* candidate (same from, to and promotion), the same validation outcome and
\* the same returned move.
C11_ExtractionPathsAgree ==
  (extraction.done /\ IsSquare(extraction.output[1].from)
                   /\ IsSquare(extraction.output[1].to)) =>
    /\ extraction.structured.move = extraction.freeText.move
    /\ AdvancedIsLegal(extraction.structured.move, LegalMovesOf(extraction.pos))
         = AdvancedIsLegal(extraction.freeText.move, LegalMovesOf(extraction.pos))
    /\ ReturnedMoves(extraction.structured, extraction.pos)
         = ReturnedMoves(extraction.freeText, extraction.pos)


\* the move the service returned is one of the legal moves of the position
ReturnedMoveIsLegal ==
  \E i \in DOMAIN getAllLegalMoves(chess) :
    MovesAgree(service.move, getAllLegalMoves(chess)[i], {Undefined, Null, EmptyString})

\* C12: when the legal-move list is non-empty, getNextMove (advanced) and
\* fetchNextMove (basic) never raise, whichever of planner call, oracle call,
\* parsing or legality fails: the call returns a move of the legal-move list.
C12_NoRaiseWithLegalMoves ==
  (service.stage \in {"returned", "raised"} /\ Len(getAllLegalMoves(chess)) > 0) =>
    (service.stage = "returned" /\ ReturnedMoveIsLegal)

\* the planner failed and the advanced protocol still returned a fallback move
C12_Witness ==
  /\ service.stage = "returned"
  /\ service.pipeline = "advanced"
  /\ service.plannerFailed
  /\ service.via = "fallback"
  /\ ReturnedMoveIsLegal


\* C13: when the legal-move list is empty, getNextMove (advanced) and
\* fetchNextMove (basic) raise instead of returning a move, no move is appended
\* to the memory's moveHistory, and no move is committed to the game.
C13_RaiseWithoutLegalMoves ==
  /\ []((service.stage \in {"returned", "raised"} /\ Len(getAllLegalMoves(chess)) = 0) =>
          /\ service.stage = "raised"
          /\ \A c \in Colors :
               getMemory(c).moveHistory
                 = MemoryOf(service.before.store, service.before.shared, c).moveHistory)
  /\ [][(service.stage = "raised" /\ ServiceCommit) => chess' = chess]_vars

\* the advanced service was called after checkmate and raised
C13_Witness ==
  /\ service.stage = "raised"
  /\ service.pipeline = "advanced"
  /\ service.oracleCalls = 1
  /\ IsCheckmate(chess.pos)


\* C14: per AI turn the basic protocol makes at most 3 move-oracle calls and
\* falls back to a random legal move only after 3 failed attempts; the advanced
\* protocol makes at most one move-oracle call and then accepts its candidate
\* or falls back, without retrying.
C14_BoundedOracleCalls ==
  /\ service.pipeline = "basic" =>
       /\ service.oracleCalls <= 3
       /\ (service.stage = "returned" /\ service.via = "fallback") =>
            (service.attempt = 3 /\ service.oracleCalls = 3)
  /\ service.pipeline = "advanced" =>
       /\ service.oracleCalls <= 1
       /\ service.stage = "returned" =>
            (service.oracleCalls = 1 /\ service.via \in {"candidate", "fallback"})

\* the basic protocol fell back after its third oracle call
C14_Witness ==
  /\ service.pipeline = "basic"
  /\ service.stage = "returned"
  /\ service.via = "fallback"
  /\ service.oracleCalls = 3


\* the strategic part of a colour's memory
StrategicState(mem) ==
  << mem.opening, mem.shortTermGoals, mem.longTermGoals, mem.reflection,
     mem.lastUpdatedShortTerm, mem.lastUpdatedLongTerm >>

\* C15: when the planner's language-model call fails, the turn leaves the
\* colour's strategic memory (opening, goals, reflections, both update stamps)
\* exactly as it was before the turn.
C15_PlannerFailureFrame ==
  (service.plannerFailed /\ service.stage \in {"oracle", "returned", "raised"}) =>
    StrategicState(getMemory(service.color))
      = StrategicState(MemoryOf(service.before.store, service.before.shared, service.color))


\* the legal moves of the position that the returned candidate agrees with
MatchedLegalMoves ==
  { m \in Range(getAllLegalMoves(chess)) :
      MovesAgree(service.move, m, {Undefined, Null, EmptyString}) }

\* C16: when the advanced validator accepts an oracle candidate, the move
\* recorded in memory carries the piece type of the matched legal move and
\* pieceActivity is incremented under the key piece+origin.
C16_AcceptedMoveRecorded ==
  (service.stage = "returned" /\ service.pipeline = "advanced"
     /\ service.via = "candidate") =>
    \A m \in MatchedLegalMoves :
      LET history == initialMemory.moveHistory
      IN  /\ Len(history) = Len(service.before.shared.moveHistory) + 1
          /\ history[Len(history)].piece = m.piece
          /\ ActivityOf(initialMemory.pieceActivity, PieceId(m))
               = ActivityOf(service.before.shared.pieceActivity, PieceId(m)) + 1


\* C17: every evaluatePosition request that is not cancelled by stop()
\* eventually delivers at least one result to its callback: if the search
\* yields nothing before the evaluation timeout, the timeout substitutes a
\* degraded estimate (depth 0 or 1).
C17_EveryRequestDelivers ==
  \A r \in Requests :
    (evals[r].stage # "unused") ~> (evals[r].results # {} \/ evals[r].stopped)


\* the engine cannot serve a request: initialisation failed or the worker
\* errored, or the initialisation ended without a usable worker
EngineUnavailable(sf) ==
  \/ sf.initializationFailed
  \/ sf.initializationPromise = "resolved" /\ (~sf.isReady \/ ~sf.worker)

\* a synthetic material-count result
IsSyntheticResult(result) == result.source = "synthetic" /\ result.depth \in {0, 1}

\* C18: when the engine is unavailable (worker construction failed,
\* initialisation timed out, or the worker errored), every evaluatePosition call
\* hands a synthetic result with depth 0 or 1 to its callback and does not
\* raise: a call made while the engine is unavailable, or waiting for an
\* initialisation that fails, takes the synthetic path, and a request on the
\* synthetic path eventually gets its result and gets no other.
C18_UnavailableEngineDegrades ==
  /\ [][\A r \in Requests :
          (evals[r].stage \in {"unused", "waiting"} /\ evals'[r].stage # evals[r].stage
             /\ EngineUnavailable(stockfish'))
            => evals'[r].stage = "synthetic"]_vars
  /\ [](\A r \in Requests :
          evals[r].stage = "synthetic" =>
            \A result \in evals[r].results : IsSyntheticResult(result))
  /\ \A r \in Requests :
       (evals[r].stage = "synthetic") ~>
         (\E result \in evals[r].results : IsSyntheticResult(result))

\* after a failed initialisation a later request received its synthetic result
C18_Witness ==
  /\ stockfish.initializationFailed
  /\ evals[1].stage = "synthetic"
  /\ evals[2].stage = "synthetic"
  /\ \E result \in evals[2].results : IsSyntheticResult(result)


\* every result a callback has received
AllResults == UNION {evals[r].results : r \in Requests}

\* C19: every result delivered with depth 0 or 1 is a synthetic fallback
\* estimate and every engine-derived result delivered has depth >= 3.
C19_DepthMarksSource ==
  \A result \in AllResults :
    /\ result.depth \in {0, 1} => result.source = "synthetic"
    /\ result.source = "engine" => result.depth >= 3

\* one callback received an engine result and another a synthetic one
C19_Witness ==
  /\ \E result \in evals[1].results : result.source = "engine" /\ result.depth >= 3
  /\ \E result \in evals[2].results : result.source = "synthetic" /\ result.depth = 1

\* C20: for every evaluation request sent to the engine the commands posted
\* are, in order, stop, position fen <fen>, go: every position command directly
\* follows a stop and is directly followed by a go, and no go is posted
\* without its position command.
C20_StopBeforePosition ==
  \A i \in DOMAIN posted :
    /\ posted[i].cmd = "position" =>
         /\ i > 1 /\ posted[i - 1].cmd = "stop"
         /\ i < Len(posted) /\ posted[i + 1].cmd = "go"
    /\ posted[i].cmd = "go" => (i > 1 /\ posted[i - 1].cmd = "position")

\* two requests were sent to the engine, the second while the first's search ran
C20_Witness ==
  /\ Cardinality({i \in DOMAIN posted : posted[i].cmd = "position"}) = 2
  /\ engine.search = 1
  /\ evals[2].stage = "engine"


NamedLegalMoves ==
  { i \in DOMAIN MoveTable(probe.before.pos) :
      LET m == MoveTable(probe.before.pos)[i].m
      IN  /\ probe.candidate.from = m.from
          /\ probe.candidate.to = m.to
          /\ (m.promotion # Undefined => probe.candidate.promotion = m.promotion) }

\* C22: makeMove never raises.  With a candidate that names no legal move of
\* the position (illegal, or malformed) it returns null and leaves position,
\* side to move and history unchanged; with a candidate that names a legal
\* move it returns that Move, appends it to the history and passes the move
\* to the other side: one half-move.
C22_MakeMoveTotal ==
  probe.op = "makeMove" =>
    /\ ~probe.raised
    /\ NamedLegalMoves = {} =>
         /\ probe.result = << >>
         /\ chess = probe.before
    /\ NamedLegalMoves # {} =>
         /\ Len(probe.result) = 1
         /\ \E i \in NamedLegalMoves :
              /\ probe.result[1] = MoveTable(probe.before.pos)[i].m
              /\ chess.pos = MoveTable(probe.before.pos)[i].next
         /\ chess.history = Append(probe.before.history, probe.result[1])
         /\ Turn(chess.pos) # Turn(probe.before.pos)

\* makeMove has refused a candidate without a `from` in a position that has
\* legal moves, after at least one move was played
C22_Witness ==
  /\ probe.op = "makeMove"
  /\ probe.candidate.from = Undefined
  /\ probe.result = << >>
  /\ probe.before.history # << >>
  /\ LegalMovesOf(probe.before.pos) # << >>


C24_ReturnedMoveRecorded ==
  service.stage = "returned" =>
    LET history == getMemory(service.color).moveHistory
        before  == MemoryOf(service.before.store, service.before.shared,
                            service.color).moveHistory
    IN  /\ Len(history) = Len(before) + 1
        /\ SubSeq(history, 1, Len(before)) = before
        /\ history[Len(history)].from = service.move.from
        /\ history[Len(history)].to = service.move.to


\* the first MaxGoals entries of a goal list, written out
FirstThree(goals) ==
  IF Len(goals) <= 3 THEN goals ELSE << goals[1], goals[2], goals[3] >>

\* C25: after a successful planner call, a goal list that came back empty is
\* not written: the colour's stored short-term (resp. long-term) goals and
\* their update stamp are as before the call; a non-empty list replaces the
\* stored one, cut to its first 3 entries, and the stamp is set to the
\* colour's move number at the call.
C25_EmptyGoalsNotWritten ==
  probe.op = "plan" =>
    LET s      == probe.strategy
        before == probe.before.store[probe.color]
        after  == memoryStore[probe.color]
        stamp  == CeilHalf(probe.at)
    IN  /\ s.shortTermGoals = << >> =>
             /\ after.shortTermGoals = before.shortTermGoals
             /\ after.lastUpdatedShortTerm = before.lastUpdatedShortTerm
        /\ s.shortTermGoals # << >> =>
             /\ after.shortTermGoals = FirstThree(s.shortTermGoals)
             /\ Len(after.shortTermGoals) <= 3
             /\ after.lastUpdatedShortTerm = stamp
        /\ s.longTermGoals = << >> =>
             /\ after.longTermGoals = before.longTermGoals
             /\ after.lastUpdatedLongTerm = before.lastUpdatedLongTerm
        /\ s.longTermGoals # << >> =>
             /\ after.longTermGoals = FirstThree(s.longTermGoals)
             /\ Len(after.longTermGoals) <= 3
             /\ after.lastUpdatedLongTerm = stamp

\* the planner returned no short-term goals and two long-term goals to a
\* colour that had stored both lists at an earlier move number
C25_Witness ==
  /\ probe.op = "plan"
  /\ probe.strategy.shortTermGoals = << >>
  /\ Len(probe.strategy.longTermGoals) = 2
  /\ Len(probe.before.store[probe.color].shortTermGoals) = 3
  /\ probe.before.store[probe.color].longTermGoals # << >>
  /\ probe.before.store[probe.color].lastUpdatedLongTerm < CeilHalf(probe.at)
  /\ probe.before.store[probe.color].lastUpdatedShortTerm > 0


\* the last min(Len(s), n) entries of s
LastOf(s, n) == SubSeq(s, Len(s) - Min(Len(s), n) + 1, Len(s))

\* C26: a colour's reflections are a FIFO queue of capacity 5 over that
\* colour's own reflections: after any addReflection calls for both colours,
\* each colour's list is exactly the last min(n, 5) of the n reflections added
\* for that colour, in insertion order.
C26_ReflectionsFifoPerColour ==
  \A c \in Colors : getMemory(c).reflection = LastOf(probe.added[c], MaxReflections)


\* C27: in the basic protocol, whenever the last move token of the oracle's
\* reply is the SAN of a currently legal move, SANs ending in '+' or '#'
\* included, extraction returns that move's origin, destination and promotion.
C27_SanTokenResolved ==
  probe.op = "extractMove" =>
    \A m \in Range(LegalMovesOf(probe.before.pos)) :
      m.san = probe.token => probe.result = << AsCandidate(m) >>


\* C28: a returned move's analysis text carries a fallback/error annotation
\* iff the move was chosen by random fallback: every fallback move is
\* annotated, and an accepted oracle candidate never is.
C28_AnnotatedIffFallback ==
  service.stage = "returned" =>
    /\ service.via \in {"candidate", "fallback"}
    /\ (service.analysis \in FallbackAnnotations) <=> (service.via = "fallback")

\* the advanced protocol's oracle call failed and the fallback move came back
\* with the error annotation
C28_Witness ==
  /\ service.stage = "returned"
  /\ service.pipeline = "advanced"
  /\ service.via = "fallback"
  /\ service.analysis = "Error occurred. Random move selected."


\* C29: after every committed AI move the analysis text shown to the
\* presentation layer is the analysis of that move: in the step that commits
\* a move, currentMoveAnalysis becomes the analysis returned with it, so that
\* it never still shows the analysis of an earlier move.
C29_AnalysisOfLastMove ==
  [][(CallEnds /\ Len(chess'.history) = Len(chess.history) + 1) =>
       /\ lastCommit'.analysis = currentMoveAnalysis'
       /\ (lastCommit'.analysis = EmptyString => currentMoveAnalysis' = EmptyString)]_vars


\* the initialisation of the current service life has failed: the timeout or
\* a worker error marked it, its promise was rejected, or no Worker could be
\* constructed
InitialisationFailed(sf) ==
  \/ sf.initializationFailed
  \/ sf.initializationPromise = "rejected"
  \/ sf.initializationPromise = "resolved" /\ ~sf.worker

\* a step in which destroy() runs
DestroyStep == stockfish'.destroys # stockfish.destroys

\* C30: engine initialisation is memoized.  Between two destroy() calls at
\* most one Worker is created, however many evaluatePosition calls are made
\* or overlap; and once the initialisation has failed, then until the next
\* destroy() it stays failed, no Worker is created, and no request is sent to
\* the engine: a request made from then on takes the synthetic path, at once
\* or after waiting for the initialisation it joined to be rejected.
C30_InitialisationMemoized ==
  /\ [](stockfish.created <= 1)
  /\ [][(InitialisationFailed(stockfish) /\ ~DestroyStep) =>
          /\ InitialisationFailed(stockfish')
          /\ stockfish'.created = stockfish.created
          /\ \A r \in Requests :
               /\ evals'[r].stage = "engine" => evals[r].stage = "engine"
               /\ evals[r].stage = "unused" => evals'[r].stage \in {"unused", "synthetic", "waiting"}
               /\ (evals[r].stage = "unused" /\ evals'[r].stage = "waiting") =>
                    (stockfish.initializationPromise = "pending" /\ ~stockfish.worker)]_vars

\* a call was made, destroy() ran, and the call after it created the one
\* Worker of the new life and was sent to the engine
C30_Witness ==
  /\ stockfish.destroys = 1
  /\ stockfish.created = 1
  /\ evals[1].stage \in {"synthetic", "orphaned"}
  /\ evals[2].stage = "engine"


\* C31: the centipawn score delivered to an evaluation callback is
\* white-positive: for an info line `score cp v`, v being relative to the
\* side to move, the delivered centipawns is v when white is to move and -v
\* when black is to move.
C31_WhitePositiveScore ==
  (probe.op = "parseEvaluation" /\ probe.delivered # << >>
     /\ probe.line.score = "cp" /\ probe.line.value # << >>) =>
    probe.delivered[1].centipawns =
      IF probe.turn = "w" THEN probe.line.value[1] ELSE 0 - probe.line.value[1]


\* C32: an evaluation callback receives only results computed for the FEN it
\* was registered with: an info line of a previous search, still being
\* stopped, is never delivered to the callback of the newer request.
C32_ResultsOfOwnPosition ==
  \A r \in Requests : \A result \in evals[r].results : result.of = r


\* a step in which onmessage handles a bestmove line
BestmoveHandled ==
  /\ engine.outbox # << >>
  /\ Head(engine.outbox).type = "bestmove"
  /\ engine'.alive
  /\ engine'.outbox = Tail(engine.outbox)

\* C33: the evaluation timeout armed for a request is disarmed only by the
\* terminal bestmove of that request's own search: the bestmove produced by
\* stopping the previous search never disarms the timeout of the current
\* request.
C33_BestmoveDisarmsOwnTimeout ==
  [][BestmoveHandled =>
       \A r \in timers.evaluation \ timers'.evaluation : Head(engine.outbox).of = r]_vars


\* C34: after stop() is called, the callback of a request issued before the
\* stop is never invoked again, whether the request was served by the engine,
\* by the synthetic fallback, or was still waiting for the initialisation.
C34_NoCallbackAfterStop ==
  [][\A r \in Requests :
       evals[r].stopped => evals'[r].results = evals[r].results]_vars


\* a timer armed before destroy() runs its callback in this step
StaleTimerFired == Len(timers'.staleInit) < Len(timers.staleInit)

\* C35: destroy() leaves the service clean: when a timer armed before
\* destroy() fires afterwards, it neither marks the initialisation as failed
\* nor terminates the worker of a re-initialisation made after destroy().
C35_StaleTimerHarmless ==
  [][StaleTimerFired =>
       /\ stockfish'.initializationFailed = stockfish.initializationFailed
       /\ stockfish'.worker = stockfish.worker
       /\ engine'.alive = engine.alive]_vars


\* a step of the board's events that changes the game
HumanMoveCommitted ==
  /\ PieceDrop \/ PromotionSelect
  /\ chess' # chess \/ gameState' # gameState

\* C36: a human move is committed only in a human-vs-AI mode when the side to
\* move on the board is the human's colour; on the AI's turn, an AI call in
\* flight or not, no event of the board changes the game.
C36_HumanMoveOnlyOnHumanTurn ==
  [][HumanMoveCommitted =>
       /\ StartsWithHumanVsAi(gameMode)
       /\ getCurrentPlayer(getGameState(chess), whitePlayer, blackPlayer).type = "human"]_vars

\* the human has moved, no AI move was committed, and the AI call is in flight
C36_Witness ==
  /\ gameMode = "human-vs-ai"
  /\ resets = 0
  /\ lastCommit = NoCommit
  /\ Len(chess.history) = 1
  /\ gameState = getGameState(chess)
  /\ \E slot \in Slots : calls[slot].stage # "idle"

====
